---------------------------- MODULE Spec2Model ----------------------------
(***************************************************************************)
(* The streaming chat protocol of the document-chat backend                *)
(* (src/app/routes.py) over the file store (src/app/file_storage.py).      *)
(*                                                                         *)
(* Text is a TLA+ string; Len, \o and SubSeq act on its characters.  The   *)
(* two code points of the warning sign in the source's literals are        *)
(* written "(!)" because module strings are ASCII.                         *)
(*                                                                         *)
(* The environment: the Gateway may answer with any status, fail to        *)
(* connect, break while its stream is read, and fail while its connection  *)
(* is closed.  The file store is taken to be reliable: its reads and       *)
(* writes do not raise.  A client stays connected until the stream ends.   *)
(***************************************************************************)
EXTENDS Integers, Sequences, FiniteSets, TLC

(***************************************************************************)
(* Python string operations used by the handlers.                          *)
(***************************************************************************)

\* s[i] as a one-character string.
Char(s, i) == SubSeq(s, i, i)

\* The characters str.strip() removes.
Whitespace == {" ", "\t", "\n", "\r", "\f"}

RECURSIVE LStrip(_)
LStrip(s) ==
    IF Len(s) > 0 /\ Char(s, 1) \in Whitespace THEN LStrip(SubSeq(s, 2, Len(s))) ELSE s

RECURSIVE RStrip(_)
RStrip(s) ==
    IF Len(s) > 0 /\ Char(s, Len(s)) \in Whitespace
    THEN RStrip(SubSeq(s, 1, Len(s) - 1))
    ELSE s

\* str.strip(): leading and trailing whitespace removed, inner whitespace kept.
Strip(s) == RStrip(LStrip(s))

UpperLetters == "ABCDEFGHIJKLMNOPQRSTUVWXYZ"

LowerLetters == "abcdefghijklmnopqrstuvwxyz"

\* The lower-case letter of each upper-case letter.
LowerMap ==
    [ch \in {Char(UpperLetters, i) : i \in 1..Len(UpperLetters)} |->
        Char(LowerLetters, CHOOSE i \in 1..Len(UpperLetters) : Char(UpperLetters, i) = ch)]

LowerChar(ch) == IF ch \in DOMAIN LowerMap THEN LowerMap[ch] ELSE ch

RECURSIVE Lower(_)
\* str.lower(), letter by letter (the string is halved to keep the
\* evaluation shallow).
Lower(s) ==
    IF Len(s) = 0 THEN ""
    ELSE IF Len(s) = 1 THEN LowerChar(s)
    ELSE Lower(SubSeq(s, 1, Len(s) \div 2)) \o Lower(SubSeq(s, Len(s) \div 2 + 1, Len(s)))

\* sub in s
Contains(s, sub) ==
    \E i \in 1..(Len(s) - Len(sub) + 1) : SubSeq(s, i, i + Len(sub) - 1) = sub

\* bool(re.search(r'["\'].*["\']', s)): two quote characters with no line
\* break between them.
QuoteChars == {"\"", "'"}

HasQuotedText(s) ==
    \E i \in 1..Len(s) : \E j \in (i + 1)..Len(s) :
        /\ Char(s, i) \in QuoteChars
        /\ Char(s, j) \in QuoteChars
        /\ \A k \in (i + 1)..(j - 1) : Char(s, k) # "\n"

RECURSIVE Join(_, _)
\* sep.join(parts), parts a sequence of strings
Join(sep, parts) ==
    IF Len(parts) = 0 THEN ""
    ELSE IF Len(parts) = 1 THEN parts[1]
    ELSE parts[1] \o sep \o Join(sep, Tail(parts))

(***************************************************************************)
(* Values.                                                                 *)
(***************************************************************************)

\* Python's None where a string is expected (conversationId, model).
None == "None"

\* Python's None where a dict is expected (a document, a message).
Absent == [absent |-> TRUE]

\* routes.py: the fixed texts of the chat handlers.
RefusalMessage ==
    "I cannot answer questions about this document because it appears to be empty or contains insufficient content. Please upload a document with readable text."

GreetingResponse == "What can I tell you about the document?"

MultiRefusalMessage ==
    "I cannot answer questions about these documents because they appear to be empty or contain insufficient content. Please upload documents with readable text."

WarningMessage ==
    "\n\n(!) Note: This response may not be based solely on the document content. Please verify the information against the source document."

greeting_patterns == <<"hi", "hey", "hello", "greetings", "howdy", "sup", "hiya">>

\* len(content.strip()) < MinContentLen refuses a document.
MinContentLen == 10

\* has_document_reference needs len(full_response) > MinReferenceLen.
MinReferenceLen == 50

\* the warning needs len(full_response) > MinWarningLen.
MinWarningLen == 20

\* all_messages[-6:]
ContextWindow == 6

\* content[:2000] in summary generation
SummaryBudget == 2000

(***************************************************************************)
(* Bounds and inputs of the model.                                         *)
(***************************************************************************)

\* Chat calls (generators) the model holds.
NumCalls == 2

Calls == 1..NumCalls

\* Lines one Gateway stream delivers at most.
MaxLines == 2

\* Document ids one multi-document request names at most.
MaxDocIds == 2

RECURSIVE Repeat(_, _)
\* s * n
Repeat(s, n) ==
    IF n = 0 THEN ""
    ELSE IF n = 1 THEN s
    ELSE Repeat(s, n \div 2) \o Repeat(s, n - n \div 2)

\* A content longer than the summary budget: 2010 characters.
LongContent == Repeat("abcdefghij", 201)

\* The documents in the store: empty, whitespace only, 9 characters once
\* stripped, 10 characters with inner whitespace, and a long one.
DocCatalogue ==
    [d \in {"d1", "d2", "d3", "d4", "d5", "d6"} |->
        CASE d = "d1" -> [id |-> d, name |-> "empty.pdf", content |-> ""]
          [] d = "d2" -> [id |-> d, name |-> "blank.pdf", content |-> "  \n "]
          [] d = "d3" -> [id |-> d, name |-> "short.pdf", content |-> " abcdefghi "]
          [] d = "d4" -> [id |-> d, name |-> "spaced.pdf", content |-> "a b c defg"]
          [] d = "d5" -> [id |-> d, name |-> "full.pdf", content |-> LongContent]
          [] d = "d6" -> [id |-> d, name |-> "notes.pdf", content |-> "0123456789"]]

\* An id no document has.
MissingDocId == "dX"

DocIdInputs == {"d1", "d2", "d3", "d4", "d5", MissingDocId}

\* The ids a multi-document request draws from: the document of 9
\* characters, the two of 10, and the missing id.
MultiDocIdInputs == {"d3", "d4", "d6", MissingDocId}

\* The two documents below the content threshold: the empty one and the
\* one of 9 characters.
UnusableDocIdInputs == {"d1", "d3"}

\* The lists of up to MaxDocIds different ids drawn from ids.
DistinctLists(ids) ==
    UNION {{list \in [1..n -> ids] : \A i, j \in 1..n : list[i] = list[j] => i = j} :
              n \in 0..MaxDocIds}

\* The documentIds of a multi-document request.
DocIdLists == DistinctLists(MultiDocIdInputs) \cup DistinctLists(UnusableDocIdInputs)

\* An id no conversation has.
MissingConvId == "cX"

Questions == {"", "hello", " Hi! ", "hi!!"}

RequestModels == {None, "llama3"}

\* The text of the Gateway's tokens.
GatewayTokens ==
    { "The report states that revenue grew 10%.",
      "I think the sky is blue and unrelated facts about history are interesting today for sure.",
      "I Cannot answer.",
      "It's 5.",
      "\"5\"",
      "See THE TEXT." }

\* One line of the Gateway's stream, as the loop reads it: blank, not JSON,
\* a JSON object (its fields), or JSON that is no object.
GatewayLines ==
    {[kind |-> "blank"], [kind |-> "malformed"], [kind |-> "scalar"]}
    \cup {[kind |-> "object", data |-> [done |-> FALSE]]}
    \cup {[kind |-> "object", data |-> [response |-> t]] : t \in GatewayTokens \cup {""}}

\* Status codes of the Gateway's answer.
GatewayStatuses == {200, 404, 500}

\* What a call knows of the Gateway's answer: nothing yet, a response with
\* a status code ([status_code |-> n]), or a connection that failed.
NoAnswer == [answered |-> FALSE]

ConnectError == [connect_error |-> TRUE]

\* str(e) of the exceptions the Gateway connection raises.
ConnectErrorText == "All connection attempts failed"

ReadErrorText == "peer closed connection without sending complete message body"

CloseErrorText == "failed to close the connection"

TypeErrorText == "argument of type 'int' is not iterable"

(***************************************************************************)
(* State.                                                                  *)
(***************************************************************************)
VARIABLES
    documents,       \* uploads/documents: doc id -> document
    conversations,   \* uploads/conversations: conversation id -> conversation
    nextId,          \* uuid4(): the next fresh id
    OLLAMA_MODEL,    \* the configured default model, or None
    pc,              \* per call: where the handler or its generator stands
    http,            \* per call: the HTTP response (status_code 0: none yet)
    closure,         \* per call: what generate() closes over
    full_response,   \* per call: the accumulated text
    linesRead,       \* per call: lines taken from the Gateway stream
    events,          \* per call: the SSE events sent, in order
    gateway,         \* per call: the requests made to the Gateway
    gatewayAnswer,   \* per call: what the Gateway answered to the request
    writes,          \* per call: ids of the messages whose content it wrote
    before           \* per call: the conversation's messages before the call

vars ==
    <<documents, conversations, nextId, OLLAMA_MODEL, pc, http, closure,
      full_response, linesRead, events, gateway, gatewayAnswer, writes, before>>

storeVars == <<documents, conversations, nextId>>

(***************************************************************************)
(* FileStorage.                                                            *)
(***************************************************************************)

get_document(doc_id) ==
    IF doc_id \in DOMAIN documents THEN documents[doc_id] ELSE Absent

\* The file written by create_conversation.
create_conversation(convs, conv_id, document_id, document_ids) ==
    (conv_id :> [id |-> conv_id, document_id |-> document_id,
                 document_ids |-> document_ids, messages |-> <<>>]) @@ convs

NewMessage(conv_id, message_id, role, content) ==
    [id |-> message_id, conversation_id |-> conv_id, role |-> role, content |-> content]

\* What add_message returns: the message, or None without the conversation.
add_message_result(convs, conv_id, message_id, role, content) ==
    IF conv_id \in DOMAIN convs
    THEN NewMessage(conv_id, message_id, role, content)
    ELSE Absent

\* The store after add_message.
add_message(convs, conv_id, message_id, role, content) ==
    IF conv_id \in DOMAIN convs
    THEN [convs EXCEPT ![conv_id].messages =
              Append(@, NewMessage(conv_id, message_id, role, content))]
    ELSE convs

get_messages(convs, conv_id) ==
    IF conv_id \in DOMAIN convs THEN convs[conv_id].messages ELSE <<>>

\* Whether update_last_message finds a message to write.
update_last_message_finds(convs, conv_id) ==
    conv_id \in DOMAIN convs /\ convs[conv_id].messages # <<>>

\* A faulty update that writes the first message of the conversation; the
\* persistence property C4 must fail against it.
update_first_message(convs, conv_id, content) ==
    IF update_last_message_finds(convs, conv_id)
    THEN [convs EXCEPT ![conv_id].messages = [@ EXCEPT ![1].content = content]]
    ELSE convs

\* A faulty update that writes the last message of every conversation; the
\* isolation property C23 must fail against it.
update_every_last_message(convs, conv_id, content) ==
    IF update_last_message_finds(convs, conv_id)
    THEN [k \in DOMAIN convs |->
             IF convs[k].messages # <<>>
             THEN [convs[k] EXCEPT !.messages[Len(convs[k].messages)].content = content]
             ELSE convs[k]]
    ELSE convs

\* The store after update_last_message: the last message of the
\* conversation gets the content.
update_last_message(convs, conv_id, content) ==
    IF update_last_message_finds(convs, conv_id)
    THEN LET msgs == convs[conv_id].messages
         IN  [convs EXCEPT ![conv_id].messages =
                  [msgs EXCEPT ![Len(msgs)].content = content]]
    ELSE convs

\* The id of the message update_last_message writes, as a sequence.
update_last_message_target(convs, conv_id) ==
    IF update_last_message_finds(convs, conv_id)
    THEN <<convs[conv_id].messages[Len(convs[conv_id].messages)].id>>
    ELSE <<>>

(***************************************************************************)
(* Pure parts of the chat handlers.                                        *)
(***************************************************************************)

\* A faulty test that measures the content without strip(); the refusal
\* property C6 must fail against it.
insufficient_content_unstripped(document) ==
    \/ document.content = ""
    \/ Len(document.content) < MinContentLen

\* stream_chat_response: the document is refused.
insufficient_content(document) ==
    \/ document.content = ""
    \/ Strip(document.content) = ""
    \/ Len(Strip(document.content)) < MinContentLen

\* A faulty filter that measures the content without strip(); the
\* multi-document refusal property C9 must fail against it.
valid_content_unstripped(doc) ==
    /\ doc.content # ""
    /\ Len(doc.content) >= MinContentLen

\* stream_multi_chat_response: the filter of valid_content_documents.
valid_content(doc) ==
    /\ doc.content # ""
    /\ Strip(doc.content) # ""
    /\ Len(Strip(doc.content)) >= MinContentLen

\* stream_multi_chat_response: the filter of excluded_docs.
excluded_content(doc) ==
    \/ doc.content = ""
    \/ Strip(doc.content) = ""
    \/ Len(Strip(doc.content)) < MinContentLen

valid_content_documents(docs) == SelectSeq(docs, valid_content)

excluded_docs(docs) == SelectSeq(docs, excluded_content)

\* A faulty greeting test without lower(); the greeting property C7 must
\* fail against it.
is_greeting_case_sensitive(question) ==
    \E i \in 1..Len(greeting_patterns) :
        \/ Strip(question) = greeting_patterns[i]
        \/ Strip(question) = greeting_patterns[i] \o "!"

is_greeting(question) ==
    LET question_lower == Lower(Strip(question))
    IN  \E i \in 1..Len(greeting_patterns) :
            \/ question_lower = greeting_patterns[i]
            \/ question_lower = greeting_patterns[i] \o "!"

\* ", ".join([f'"{doc["name"]}"' for doc in docs])
QuotedNames(docs) ==
    Join(", ", [i \in 1..Len(docs) |-> "\"" \o docs[i].name \o "\""])

multi_greeting_response(docs) ==
    "What can I tell you about these documents: "
        \o QuotedNames(valid_content_documents(docs)) \o "?"

\* The exclusion notice, or "" when no document is excluded.
warning_prefix(docs) ==
    IF Len(excluded_docs(docs)) > 0
    THEN "(!) Note: " \o ToString(Len(excluded_docs(docs)))
            \o " document(s) were excluded due to insufficient content: "
            \o QuotedNames(excluded_docs(docs))
            \o "\n\nAnalyzing remaining "
            \o ToString(Len(valid_content_documents(docs)))
            \o " document(s):\n\n"
    ELSE ""

\* [{"role": ..., "content": ...} for msg in all_messages[-6:]]
context_messages(all_messages) ==
    LET n == Len(all_messages)
        first == IF n > ContextWindow THEN n - ContextWindow + 1 ELSE 1
    IN  [i \in 1..(n - first + 1) |->
            [role |-> all_messages[first + i - 1].role,
             content |-> all_messages[first + i - 1].content]]

\* A faulty verifier without the length condition; the report example
\* property C14 must fail against it.
has_document_reference_any_length(response) ==
    LET lower == Lower(response)
    IN  \/ Contains(lower, "document")
        \/ Contains(lower, "according to")
        \/ Contains(lower, "the text")
        \/ Contains(lower, "states that")
        \/ Contains(lower, "mentions")
        \/ HasQuotedText(response)

\* A faulty verifier that ignores quoted text; the classification property
\* C16 must fail against it.
has_document_reference_without_quotes(response) ==
    LET lower == Lower(response)
    IN  /\ Len(response) > MinReferenceLen
        /\ \/ Contains(lower, "document")
           \/ Contains(lower, "according to")
           \/ Contains(lower, "the text")
           \/ Contains(lower, "states that")
           \/ Contains(lower, "mentions")

has_document_reference(response) ==
    LET lower == Lower(response)
    IN  /\ Len(response) > MinReferenceLen
        /\ \/ Contains(lower, "document")
           \/ Contains(lower, "according to")
           \/ Contains(lower, "the text")
           \/ Contains(lower, "states that")
           \/ Contains(lower, "mentions")
           \/ HasQuotedText(response)

is_refusal(response) ==
    LET lower == Lower(response)
    IN  \/ Contains(lower, "cannot answer")
        \/ Contains(lower, "not present in")
        \/ Contains(lower, "not found in")
        \/ Contains(lower, "information is not")

\* A faulty policy that also flags refusals; the warning property C12 must
\* fail against it.
needs_warning_ignoring_refusal(response) ==
    /\ ~has_document_reference(response)
    /\ Len(response) > MinWarningLen

\* stream_chat_response: the warning is added.
needs_warning(response) ==
    /\ ~has_document_reference(response)
    /\ ~is_refusal(response)
    /\ Len(response) > MinWarningLen

\* The SSE events (the JSON after "data: ").
MessageIdEvent(message_id) == [type |-> "message_id", messageId |-> message_id]

TokenEvent(content) == [type |-> "token", content |-> content]

\* The except clause's event for the exception whose str() is e.
ErrorEvent(e) == [type |-> "error", content |-> "Error during streaming: " \o e]

DoneEvent == [type |-> "done"]

\* The model the request runs with, or None.
model_name(request) ==
    IF request.model # None /\ request.model # "" THEN request.model ELSE OLLAMA_MODEL

(***************************************************************************)
(* The handlers before the stream opens: chat and multi_chat.  Neither     *)
(* awaits, so each is one step.                                            *)
(***************************************************************************)

\* A faulty rejection that answers 400 whatever the fault; the status property
\* C17 must fail against it.
RejectAlways400(c, status_code, detail) ==
    /\ pc' = [pc EXCEPT ![c] = "rejected"]
    /\ http' = [http EXCEPT ![c] = [status_code |-> 400, detail |-> detail]]
    /\ UNCHANGED closure

\* raise HTTPException(status_code, detail)
Reject(c, status_code, detail) ==
    /\ pc' = [pc EXCEPT ![c] = "rejected"]
    /\ http' = [http EXCEPT ![c] = [status_code |-> status_code, detail |-> detail]]
    /\ UNCHANGED closure

\* return StreamingResponse(generate(), ...)
OpenStream(c, cl) ==
    /\ pc' = [pc EXCEPT ![c] = "open"]
    /\ http' = [http EXCEPT ![c] = [status_code |-> 200, detail |-> ""]]
    /\ closure' = [closure EXCEPT ![c] = cl]

\* chat and multi_chat from "Get or create conversation" on: the
\* conversation, the user message, the context, the placeholder, the model.
Converse(c, kind, docs, request, document_id, document_ids) ==
    LET created == request.conversationId \in {None, ""}
        conversation_id ==
            IF created THEN ToString(nextId) ELSE request.conversationId
        convs1 ==
            IF created
            THEN create_conversation(conversations, conversation_id,
                                     document_id, document_ids)
            ELSE conversations
        convs2 == add_message(convs1, conversation_id, ToString(nextId + 1),
                              "user", request.question)
        context == context_messages(get_messages(convs2, conversation_id))
        assistant_message ==
            add_message_result(convs2, conversation_id, ToString(nextId + 2),
                               "assistant", "")
        convs3 == add_message(convs2, conversation_id, ToString(nextId + 2),
                              "assistant", "")
    IN  /\ conversations' = convs3
        /\ nextId' = nextId + 3
        /\ before' = [before EXCEPT ![c] = get_messages(conversations, conversation_id)]
        /\ IF model_name(request) \in {None, ""}
           THEN Reject(c, 400, "No model specified. Please select a model from the dropdown.")
           ELSE OpenStream(c, [kind |-> kind,
                               documents |-> docs,
                               conversation_id |-> conversation_id,
                               question |-> request.question,
                               model_name |-> model_name(request),
                               context_messages |-> context,
                               assistant_message |-> assistant_message])

\* POST /api/chat
Chat(c, request) ==
    /\ pc[c] = "idle"
    /\ IF request.question = ""
       THEN Reject(c, 400, "Question is required") /\ UNCHANGED <<conversations, nextId, before>>
       ELSE IF get_document(request.documentId) = Absent
       THEN Reject(c, 404, "Document not found") /\ UNCHANGED <<conversations, nextId, before>>
       ELSE Converse(c, "single", <<get_document(request.documentId)>>, request,
                     request.documentId, <<>>)
    /\ UNCHANGED <<documents, OLLAMA_MODEL, full_response, linesRead, events,
                   gateway, gatewayAnswer, writes>>

\* The first id of the request that has no document, as a sequence.
first_missing(documentIds) ==
    LET missing == SelectSeq(documentIds, LAMBDA d : get_document(d) = Absent)
    IN  IF Len(missing) > 0 THEN <<missing[1]>> ELSE <<>>

\* POST /api/chat/multi
MultiChat(c, request) ==
    /\ pc[c] = "idle"
    /\ IF request.question = ""
       THEN Reject(c, 400, "Question is required") /\ UNCHANGED <<conversations, nextId, before>>
       ELSE IF Len(request.documentIds) = 0
       THEN Reject(c, 400, "Document IDs are required") /\ UNCHANGED <<conversations, nextId, before>>
       ELSE IF first_missing(request.documentIds) # <<>>
       THEN /\ Reject(c, 404, "Document " \o first_missing(request.documentIds)[1] \o " not found")
            /\ UNCHANGED <<conversations, nextId, before>>
       ELSE Converse(c, "multi",
                     [i \in 1..Len(request.documentIds) |-> get_document(request.documentIds[i])],
                     request, None, request.documentIds)
    /\ UNCHANGED <<documents, OLLAMA_MODEL, full_response, linesRead, events,
                   gateway, gatewayAnswer, writes>>

(***************************************************************************)
(* The generator: generate() around stream_chat_response or                *)
(* stream_multi_chat_response.  A step runs from one suspension (a yield,  *)
(* an await on the Gateway) to the next.                                   *)
(***************************************************************************)

Emit(c, evs) == events' = [events EXCEPT ![c] = @ \o evs]

\* except Exception as e: yield the error event; the done event follows.
Raise(c, e) ==
    /\ Emit(c, <<ErrorEvent(e)>>)
    /\ pc' = [pc EXCEPT ![c] = "yield_done"]

\* FileStorage.update_last_message(conversation_id, content)
UpdateLastMessage(c, content) ==
    /\ conversations' =
           update_last_message(conversations, closure[c].conversation_id, content)
    /\ writes' = [writes EXCEPT ![c] =
           @ \o update_last_message_target(conversations, closure[c].conversation_id)]

\* The answer given without the Gateway (refusal, greeting), as a sequence:
\* empty when the call goes on to the Gateway.
early_answer(cl) ==
    IF cl.kind = "single"
    THEN IF insufficient_content(cl.documents[1]) THEN <<RefusalMessage>>
         ELSE IF is_greeting(cl.question) THEN <<GreetingResponse>>
         ELSE <<>>
    ELSE IF Len(valid_content_documents(cl.documents)) = 0 THEN <<MultiRefusalMessage>>
         ELSE IF is_greeting(cl.question) THEN <<multi_greeting_response(cl.documents)>>
         ELSE <<>>

\* A faulty handler that yields no exclusion notice; the notice property C8
\* must fail against it.
no_exclusion_notice(cl) == <<>>

\* The exclusion notice stream_multi_chat_response yields before the
\* Gateway request, as a sequence of events.
exclusion_notice(cl) ==
    IF cl.kind = "multi" /\ Len(excluded_docs(cl.documents)) > 0
    THEN <<TokenEvent(warning_prefix(cl.documents))>>
    ELSE <<>>

\* "\n".join([f"{msg['role']}: {msg['content']}" for msg in context_messages])
context_history(messages) ==
    Join("\n", [i \in 1..Len(messages) |-> messages[i].role \o ": " \o messages[i].content])

\* ", ".join(f'[Document {idx + 1}: "{doc["name"]}"]' ...)
document_list(docs) ==
    Join(", ", [i \in 1..Len(docs) |->
                   "[Document " \o ToString(i) \o ": \"" \o docs[i].name \o "\"]"])

\* A faulty demarcation that numbers the documents from 0, as enumerate
\* does; the numbering property C28 must fail against it.
combined_content_from_zero(docs) ==
    Join("\n\n", [i \in 1..Len(docs) |->
                     "=== DOCUMENT " \o ToString(i - 1) \o ": \"" \o docs[i].name
                         \o "\" ===\n" \o docs[i].content
                         \o "\n=== END OF DOCUMENT " \o ToString(i - 1) \o " ==="])

\* "\n\n".join(f'=== DOCUMENT {idx + 1}: "{doc["name"]}" ===\n{doc["content"]}
\* \n=== END OF DOCUMENT {idx + 1} ===' ...)
combined_content(docs) ==
    Join("\n\n", [i \in 1..Len(docs) |->
                     "=== DOCUMENT " \o ToString(i) \o ": \"" \o docs[i].name
                         \o "\" ===\n" \o docs[i].content
                         \o "\n=== END OF DOCUMENT " \o ToString(i) \o " ==="])

\* generate_document_summary_streaming: the content placed in the summary
\* prompt.
truncated_content(content) ==
    IF Len(content) > SummaryBudget THEN SubSeq(content, 1, SummaryBudget) ELSE content

\* A faulty prompt that shows the first 200 characters of each document; the
\* full-content property C24 must fail against it.
prompt_with_preview(cl) ==
    LET shown == IF cl.kind = "single"
                 THEN cl.documents
                 ELSE valid_content_documents(cl.documents)
    IN  [documents |-> [i \in 1..Len(shown) |->
                           [name |-> shown[i].name,
                            content |-> SubSeq(shown[i].content, 1,
                                               IF Len(shown[i].content) < 200
                                               THEN Len(shown[i].content) ELSE 200)]],
         context_history |-> context_history(cl.context_messages),
         question |-> cl.question]

\* What the handler formats into the prompt's template: the documents shown
\* (name and content), the history lines and the question.
prompt(cl) ==
    LET shown == IF cl.kind = "single"
                 THEN cl.documents
                 ELSE valid_content_documents(cl.documents)
        values == [documents |-> [i \in 1..Len(shown) |->
                                     [name |-> shown[i].name, content |-> shown[i].content]],
                   context_history |-> context_history(cl.context_messages),
                   question |-> cl.question]
    IN  IF cl.kind = "single"
        THEN values
        ELSE values @@ [document_list |-> document_list(shown),
                        combined_content |-> combined_content(shown)]

\* client.stream("POST", .../api/generate, json={model, prompt, stream})
SendRequest(c) ==
    /\ gateway' = [gateway EXCEPT ![c] =
           Append(@, [model |-> closure[c].model_name,
                      prompt |-> prompt(closure[c]),
                      stream |-> TRUE])]
    /\ pc' = [pc EXCEPT ![c] = "await_response"]

\* stream_*_response from its start to its first suspension.
ValidateBody(c) ==
    LET cl == closure[c]
    IN  IF early_answer(cl) # <<>>
        THEN /\ UpdateLastMessage(c, early_answer(cl)[1])
             /\ Emit(c, <<TokenEvent(early_answer(cl)[1])>>)
             /\ pc' = [pc EXCEPT ![c] = "yield_done"]
             /\ UNCHANGED gateway
        ELSE IF exclusion_notice(cl) # <<>>
        THEN /\ Emit(c, exclusion_notice(cl))
             /\ pc' = [pc EXCEPT ![c] = "request"]
             /\ UNCHANGED <<conversations, writes, gateway>>
        ELSE /\ SendRequest(c)
             /\ UNCHANGED <<conversations, writes, events>>

\* generate(): the message_id event, when add_message returned a message.
GenStart(c) ==
    /\ pc[c] = "open"
    /\ IF closure[c].assistant_message # Absent
       THEN /\ Emit(c, <<MessageIdEvent(closure[c].assistant_message.id)>>)
            /\ pc' = [pc EXCEPT ![c] = "validate"]
            /\ UNCHANGED <<conversations, writes, gateway>>
       ELSE ValidateBody(c)
    /\ UNCHANGED <<documents, nextId, OLLAMA_MODEL, http, closure, full_response,
                   linesRead, gatewayAnswer, before>>

Validate(c) ==
    /\ pc[c] = "validate"
    /\ ValidateBody(c)
    /\ UNCHANGED <<documents, nextId, OLLAMA_MODEL, http, closure, full_response,
                   linesRead, gatewayAnswer, before>>

\* After the exclusion notice: the Gateway request.
Request(c) ==
    /\ pc[c] = "request"
    /\ SendRequest(c)
    /\ UNCHANGED <<storeVars, OLLAMA_MODEL, http, closure, full_response,
                   linesRead, events, gatewayAnswer, writes, before>>

\* A faulty handler that does not test the status code; the Gateway error
\* property C10 must fail against it.
GatewayRespondAnyStatus(c, status_code) ==
    /\ pc[c] = "await_response"
    /\ gatewayAnswer' = [gatewayAnswer EXCEPT ![c] = [status_code |-> status_code]]
    /\ full_response' = [full_response EXCEPT ![c] =
           IF closure[c].kind = "multi" THEN warning_prefix(closure[c].documents) ELSE ""]
    /\ pc' = [pc EXCEPT ![c] = "streaming"]
    /\ UNCHANGED <<storeVars, OLLAMA_MODEL, http, closure, linesRead, events, gateway,
                   writes, before>>

\* The Gateway answers with a status code.
GatewayRespond(c, status_code) ==
    /\ pc[c] = "await_response"
    /\ gatewayAnswer' = [gatewayAnswer EXCEPT ![c] = [status_code |-> status_code]]
    /\ IF status_code # 200
       THEN /\ Raise(c, "Ollama API error: " \o ToString(status_code))
            /\ UNCHANGED full_response
       ELSE /\ full_response' = [full_response EXCEPT ![c] =
                   IF closure[c].kind = "multi"
                   THEN warning_prefix(closure[c].documents)
                   ELSE ""]
            /\ pc' = [pc EXCEPT ![c] = "streaming"]
            /\ UNCHANGED events
    /\ UNCHANGED <<storeVars, OLLAMA_MODEL, http, closure, linesRead, gateway, writes,
                   before>>

\* The connection to the Gateway fails: client.stream raises.
GatewayConnectFails(c) ==
    /\ pc[c] = "await_response"
    /\ gatewayAnswer' = [gatewayAnswer EXCEPT ![c] = ConnectError]
    /\ Raise(c, ConnectErrorText)
    /\ UNCHANGED <<storeVars, OLLAMA_MODEL, http, closure, full_response,
                   linesRead, gateway, writes, before>>

\* The token of a line, as a sequence: empty for a line the loop skips.
line_token(line) ==
    IF line.kind = "object" /\ "response" \in DOMAIN line.data /\ line.data.response # ""
    THEN <<line.data.response>>
    ELSE <<>>

\* A faulty relay that yields the token without adding it to
\* full_response; the persisted-text property C29 must fail against it.
StreamLineNotAccumulated(c, line) ==
    /\ pc[c] = "streaming"
    /\ linesRead[c] < MaxLines
    /\ linesRead' = [linesRead EXCEPT ![c] = @ + 1]
    /\ IF line.kind = "scalar"
       THEN Raise(c, TypeErrorText)
       ELSE /\ Emit(c, IF line_token(line) # <<>>
                       THEN <<TokenEvent(line_token(line)[1])>>
                       ELSE <<>>)
            /\ UNCHANGED pc
    /\ UNCHANGED <<storeVars, OLLAMA_MODEL, http, closure, full_response, gateway,
                   gatewayAnswer, writes, before>>

\* One turn of "async for line in response.aiter_lines()".
StreamLine(c, line) ==
    /\ pc[c] = "streaming"
    /\ linesRead[c] < MaxLines
    /\ linesRead' = [linesRead EXCEPT ![c] = @ + 1]
    /\ IF line.kind = "scalar"
       THEN /\ Raise(c, TypeErrorText)
            /\ UNCHANGED full_response
       ELSE /\ full_response' = [full_response EXCEPT ![c] =
                   IF line_token(line) # <<>> THEN @ \o line_token(line)[1] ELSE @]
            /\ Emit(c, IF line_token(line) # <<>>
                       THEN <<TokenEvent(line_token(line)[1])>>
                       ELSE <<>>)
            /\ UNCHANGED pc
    /\ UNCHANGED <<storeVars, OLLAMA_MODEL, http, closure, gateway, gatewayAnswer,
                   writes, before>>

\* Reading the stream raises (the connection breaks).
StreamReadFails(c) ==
    /\ pc[c] = "streaming"
    /\ Raise(c, ReadErrorText)
    /\ UNCHANGED <<storeVars, OLLAMA_MODEL, http, closure, full_response,
                   linesRead, gateway, gatewayAnswer, writes, before>>

\* A faulty completion that yields done without the update; the write-count
\* property C5 must fail against it.
PersistBodyWithoutUpdate(c) ==
    /\ Emit(c, <<DoneEvent>>)
    /\ pc' = [pc EXCEPT ![c] = "closing"]
    /\ UNCHANGED <<conversations, writes, full_response>>

\* "Update assistant message" and the done event, inside the async with.
PersistBody(c) ==
    /\ UpdateLastMessage(c, full_response[c])
    /\ Emit(c, <<DoneEvent>>)
    /\ pc' = [pc EXCEPT ![c] = "closing"]
    /\ UNCHANGED full_response

\* A faulty generator that never warns; the sky example property C15 must
\* fail against it.
no_warning_suffix(cl, response) == <<>>

\* The warning the call adds after the stream, as a sequence.
warning_suffix(cl, response) ==
    IF cl.kind = "single" /\ needs_warning(response) THEN <<WarningMessage>> ELSE <<>>

\* The stream ends: the verification, then the update.
StreamEnd(c) ==
    /\ pc[c] = "streaming"
    /\ LET warning == warning_suffix(closure[c], full_response[c])
       IN  IF warning # <<>>
           THEN /\ full_response' = [full_response EXCEPT ![c] = @ \o warning[1]]
                /\ Emit(c, <<TokenEvent(warning[1])>>)
                /\ pc' = [pc EXCEPT ![c] = "persist"]
                /\ UNCHANGED <<conversations, writes>>
           ELSE PersistBody(c)
    /\ UNCHANGED <<documents, nextId, OLLAMA_MODEL, http, closure, linesRead, gateway,
                   gatewayAnswer, before>>

\* After the warning token: the update and the done event.
Persist(c) ==
    /\ pc[c] = "persist"
    /\ PersistBody(c)
    /\ UNCHANGED <<documents, nextId, OLLAMA_MODEL, http, closure, linesRead, gateway,
                   gatewayAnswer, before>>

\* Leaving the two "async with" blocks after the done event.
CloseOk(c) ==
    /\ pc[c] = "closing"
    /\ pc' = [pc EXCEPT ![c] = "finished"]
    /\ UNCHANGED <<storeVars, OLLAMA_MODEL, http, closure, full_response,
                   linesRead, events, gateway, gatewayAnswer, writes, before>>

\* Closing the response or the client raises: the except clause runs.
CloseFails(c) ==
    /\ pc[c] = "closing"
    /\ Raise(c, CloseErrorText)
    /\ UNCHANGED <<storeVars, OLLAMA_MODEL, http, closure, full_response,
                   linesRead, gateway, gatewayAnswer, writes, before>>

\* The done event after a refusal, a greeting or an error event.
YieldDone(c) ==
    /\ pc[c] = "yield_done"
    /\ Emit(c, <<DoneEvent>>)
    /\ pc' = [pc EXCEPT ![c] = "finished"]
    /\ UNCHANGED <<storeVars, OLLAMA_MODEL, http, closure, full_response,
                   linesRead, gateway, gatewayAnswer, writes, before>>

(***************************************************************************)
(* Requests, initial states and specifications.                            *)
(***************************************************************************)

ConvIdInputs == {None, MissingConvId} \cup DOMAIN conversations

ChatRequests ==
    [documentId : DocIdInputs, conversationId : ConvIdInputs,
     question : Questions, model : RequestModels]

MultiChatRequests ==
    [documentIds : DocIdLists, conversationId : ConvIdInputs,
     question : Questions, model : RequestModels]

NoConversations == [k \in {} |-> Absent]

\* The store after three completed turns on document d5.
PriorConversations ==
    "1" :> [id |-> "1", document_id |-> "d5", document_ids |-> <<>>,
            messages |-> << NewMessage("1", "2", "user", "hi!!"),
                            NewMessage("1", "3", "assistant", "It's 5."),
                            NewMessage("1", "4", "user", "why?"),
                            NewMessage("1", "5", "assistant", "See THE TEXT."),
                            NewMessage("1", "6", "user", "hello"),
                            NewMessage("1", "7", "assistant", GreetingResponse) >>]

NoClosure == [none |-> TRUE]

InitCalls ==
    /\ pc = [c \in Calls |-> "idle"]
    /\ http = [c \in Calls |-> [status_code |-> 0, detail |-> ""]]
    /\ closure = [c \in Calls |-> NoClosure]
    /\ full_response = [c \in Calls |-> ""]
    /\ linesRead = [c \in Calls |-> 0]
    /\ events = [c \in Calls |-> <<>>]
    /\ gateway = [c \in Calls |-> <<>>]
    /\ gatewayAnswer = [c \in Calls |-> NoAnswer]
    /\ writes = [c \in Calls |-> <<>>]
    /\ before = [c \in Calls |-> <<>>]

Init ==
    /\ documents = DocCatalogue
    /\ \/ conversations = NoConversations /\ nextId = 1
       \/ conversations = PriorConversations /\ nextId = 8
    /\ OLLAMA_MODEL \in {None, "mistral"}
    /\ InitCalls

\* The steps of the generator of call c.
StreamStep(c) ==
    \/ GenStart(c)
    \/ Validate(c)
    \/ Request(c)
    \/ \E status_code \in GatewayStatuses : GatewayRespond(c, status_code)
    \/ GatewayConnectFails(c)
    \/ pc[c] = "streaming" /\ \E line \in GatewayLines : StreamLine(c, line)
    \/ StreamReadFails(c)
    \/ StreamEnd(c)
    \/ Persist(c)
    \/ CloseOk(c)
    \/ CloseFails(c)
    \/ YieldDone(c)

\* The one call of Spec.
FirstCall == CHOOSE c \in Calls : \A d \in Calls : c <= d

\* One chat call, single- or multi-document, on a store that holds the
\* documents and no conversation or an earlier one.
Next ==
    \/ pc[FirstCall] = "idle" /\ \E request \in ChatRequests : Chat(FirstCall, request)
    \/ pc[FirstCall] = "idle" /\ \E request \in MultiChatRequests : MultiChat(FirstCall, request)
    \/ StreamStep(FirstCall)

Spec == Init /\ [][Next]_vars

\* The server keeps iterating the generator while the client is connected,
\* and the Gateway client's timeout ends every await: the call's next step
\* is eventually taken.
FairSpec == Spec /\ WF_vars(StreamStep(FirstCall))

(***************************************************************************)
(* Concurrent calls.  chat does not await before it returns, so its store  *)
(* writes are one step; the generator of a call suspends at every yield    *)
(* and at every await on the Gateway, and the generators of other calls    *)
(* run in between.                                                         *)
(***************************************************************************)

\* The requests of the concurrent calls: a document that is refused or one
\* that is answered, a new conversation or one the store holds.
ConcurrentRequests ==
    [documentId : {"d1", "d4"}, conversationId : {None} \cup DOMAIN conversations,
     question : {"hi!!"}, model : {"llama3"}]

\* The lines the Gateway streams to the concurrent calls.
ConcurrentLines == {[kind |-> "object", data |-> [response |-> "It's 5."]]}

ConcurrentInit ==
    /\ documents = DocCatalogue
    /\ conversations = PriorConversations /\ nextId = 8
    /\ OLLAMA_MODEL = None
    /\ InitCalls

\* The steps of the generator of call c among concurrent calls.  The
\* Gateway answers 200 here: a call whose request fails writes nothing.
ConcurrentStep(c) ==
    \/ GenStart(c)
    \/ Validate(c)
    \/ GatewayRespond(c, 200)
    \/ pc[c] = "streaming" /\ \E line \in ConcurrentLines : StreamLine(c, line)
    \/ StreamEnd(c)
    \/ CloseOk(c)
    \/ YieldDone(c)

ConcurrentNext ==
    \E c \in Calls :
        \/ pc[c] = "idle" /\ \E request \in ConcurrentRequests : Chat(c, request)
        \/ ConcurrentStep(c)

ConcurrentSpec == ConcurrentInit /\ [][ConcurrentNext]_vars

(***************************************************************************)
(* The document and conversation endpoints.  Each request takes one call   *)
(* slot: it is answered (200, the body kept in closure) or rejected.       *)
(***************************************************************************)

\* 10 * 1024 * 1024
MaxUploadBytes == 10485760

\* The ids of the conversations that reference the document.
referencing(convs, doc_id) ==
    {k \in DOMAIN convs :
        \/ convs[k].document_id = doc_id
        \/ \E i \in 1..Len(convs[k].document_ids) : convs[k].document_ids[i] = doc_id}

\* A faulty deletion that leaves the conversations in place; the deletion
\* property C25 must fail against it.
delete_document_only(convs, doc_id) == convs

\* FileStorage.delete_document: the conversation files left.
delete_document(convs, doc_id) ==
    [k \in DOMAIN convs \ referencing(convs, doc_id) |-> convs[k]]

\* A faulty lookup that finds nothing; the idempotence property C26 must
\* fail against it.
get_conversation_by_nothing(convs, doc_id) == {}

\* FileStorage.get_conversation_by_document: the ids of the conversations
\* it may return (the first match in the order of glob).
get_conversation_by_document(convs, doc_id) ==
    {k \in DOMAIN convs : convs[k].document_id = doc_id}

\* FileStorage.create_document: the stored document.
create_document(doc_id, name, type, size, content) ==
    [id |-> doc_id, name |-> name, type |-> type, size |-> size, content |-> content,
     summary |-> None, summary_status |-> None, summary_progress |-> 0,
     summary_message |-> None]

RECURSIVE LastSegment(_)
\* filename.split('.')[-1]
LastSegment(s) ==
    IF \E i \in 1..Len(s) : Char(s, i) = "."
    THEN LastSegment(SubSeq(s, (CHOOSE i \in 1..Len(s) : Char(s, i) = ".") + 1, Len(s)))
    ELSE s

\* filename.split('.')[-1].lower() if '.' in filename else ''
extension(filename) ==
    IF \E i \in 1..Len(filename) : Char(filename, i) = "."
    THEN Lower(LastSegment(filename))
    ELSE ""

\* return <body>
Respond(c, body) ==
    /\ pc' = [pc EXCEPT ![c] = "answered"]
    /\ http' = [http EXCEPT ![c] = [status_code |-> 200, detail |-> ""]]
    /\ closure' = [closure EXCEPT ![c] = [kind |-> "response", body |-> body]]

\* GET /api/documents/{document_id}
GetDocument(c, document_id) ==
    /\ pc[c] = "idle"
    /\ IF get_document(document_id) = Absent
       THEN Reject(c, 404, "Document not found")
       ELSE Respond(c, get_document(document_id))
    /\ UNCHANGED <<storeVars, OLLAMA_MODEL, full_response, linesRead, events,
                   gateway, gatewayAnswer, writes, before>>

\* DELETE /api/documents/{document_id}
DeleteDocument(c, document_id) ==
    /\ pc[c] = "idle"
    /\ IF document_id \notin DOMAIN documents
       THEN /\ Reject(c, 404, "Document not found")
            /\ UNCHANGED <<documents, conversations>>
       ELSE /\ conversations' = delete_document(conversations, document_id)
            /\ documents' = [d \in DOMAIN documents \ {document_id} |-> documents[d]]
            /\ Respond(c, [success |-> TRUE])
    /\ UNCHANGED <<nextId, OLLAMA_MODEL, full_response, linesRead, events,
                   gateway, gatewayAnswer, writes, before>>

\* GET /api/conversations/{document_id}
GetOrCreateConversation(c, document_id) ==
    /\ pc[c] = "idle"
    /\ IF get_document(document_id) = Absent
       THEN /\ Reject(c, 404, "Document not found")
            /\ UNCHANGED <<conversations, nextId>>
       ELSE IF get_conversation_by_document(conversations, document_id) # {}
       THEN /\ \E k \in get_conversation_by_document(conversations, document_id) :
                  Respond(c, conversations[k])
            /\ UNCHANGED <<conversations, nextId>>
       ELSE /\ conversations' =
                  create_conversation(conversations, ToString(nextId), document_id, <<>>)
            /\ nextId' = nextId + 1
            /\ Respond(c, create_conversation(conversations, ToString(nextId),
                                              document_id, <<>>)[ToString(nextId)])
    /\ UNCHANGED <<documents, OLLAMA_MODEL, full_response, linesRead, events,
                   gateway, gatewayAnswer, writes, before>>

\* POST /api/documents/upload without a model: the file is read in chunks
\* and its text extracted.
UploadDocument(c, file) ==
    /\ pc[c] = "idle"
    /\ IF file.filename = ""
       THEN Reject(c, 400, "No file provided") /\ UNCHANGED <<documents, nextId>>
       ELSE IF file.size > MaxUploadBytes
       THEN Reject(c, 413, "File size exceeds 10MB limit") /\ UNCHANGED <<documents, nextId>>
       ELSE IF file.content_type # "application/pdf" /\ extension(file.filename) # "pdf"
       THEN /\ Reject(c, 400, "Only PDF files are supported. Please upload a PDF document.")
            /\ UNCHANGED <<documents, nextId>>
       ELSE /\ documents' =
                  (ToString(nextId) :> create_document(ToString(nextId), file.filename,
                                                       file.content_type, file.size, file.text))
                      @@ documents
            /\ nextId' = nextId + 1
            /\ Respond(c, create_document(ToString(nextId), file.filename,
                                          file.content_type, file.size, file.text))
    /\ UNCHANGED <<conversations, OLLAMA_MODEL, full_response, linesRead, events,
                   gateway, gatewayAnswer, writes, before>>

\* The files uploaded: a small PDF, PDFs at and just above the size limit,
\* an 11MB text file, a PDF by its extension only, a text file, no name.
UploadFiles ==
    { [filename |-> "test.pdf", content_type |-> "application/pdf", size |-> 12,
       text |-> "Test content"],
      [filename |-> "exact.pdf", content_type |-> "application/pdf",
       size |-> MaxUploadBytes, text |-> "Test content"],
      [filename |-> "over.pdf", content_type |-> "application/pdf",
       size |-> MaxUploadBytes + 1, text |-> "Test content"],
      [filename |-> "large.txt", content_type |-> "text/plain",
       size |-> 11 * 1024 * 1024, text |-> "Test content"],
      [filename |-> "notes.v2.PDF", content_type |-> "", size |-> 12,
       text |-> "Test content"],
      [filename |-> "test.txt", content_type |-> "text/plain", size |-> 12,
       text |-> "Test content"],
      [filename |-> "", content_type |-> "application/pdf", size |-> 12,
       text |-> "Test content"] }

\* The store with two conversations on d5 and one on the documents d3, d4.
StoredConversations ==
    PriorConversations
        @@ ("8" :> [id |-> "8", document_id |-> None, document_ids |-> <<"d3", "d4">>,
                    messages |-> <<>>])
        @@ ("9" :> [id |-> "9", document_id |-> "d5", document_ids |-> <<>>,
                    messages |-> <<>>])

StoreInit ==
    /\ documents = DocCatalogue
    /\ conversations = StoredConversations /\ nextId = 10
    /\ OLLAMA_MODEL = None
    /\ InitCalls

StoreNext ==
    \E c \in Calls :
        \/ \E document_id \in DocIdInputs : GetDocument(c, document_id)
        \/ \E document_id \in DocIdInputs : DeleteDocument(c, document_id)
        \/ \E document_id \in DocIdInputs : GetOrCreateConversation(c, document_id)
        \/ \E file \in UploadFiles : UploadDocument(c, file)

StoreSpec == StoreInit /\ [][StoreNext]_vars

(***************************************************************************)
(* What a client sees of a call, and what the store holds for it.          *)
(***************************************************************************)

EventTypes(c) == [i \in 1..Len(events[c]) |-> events[c][i].type]

CountType(c, type) == Len(SelectSeq(events[c], LAMBDA e : e.type = type))

\* The content of the token events, in emission order.
TokenContents(c) ==
    LET tokens == SelectSeq(events[c], LAMBDA e : e.type = "token")
    IN  [i \in 1..Len(tokens) |-> tokens[i].content]

\* All streamed text of the call.
StreamedText(c) == Join("", TokenContents(c))

Started(c) == pc[c] \notin {"idle", "rejected"}

Finished(c) == pc[c] = "finished"

\* The call has a placeholder: its conversation existed when it appended.
HasPlaceholder(c) == Started(c) /\ closure[c].assistant_message # Absent

RoleContent(msgs) ==
    [i \in 1..Len(msgs) |-> [role |-> msgs[i].role, content |-> msgs[i].content]]

\* Some done event has been sent.
DoneEmitted(c) == \E i \in 1..Len(events[c]) : events[c][i].type = "done"

\* No error event has been sent.
NoError(c) == \A i \in 1..Len(events[c]) : events[c][i].type # "error"

\* An error event was sent before any done event.
ErrorBeforeDone(c) ==
    \E i \in 1..Len(events[c]) :
        /\ events[c][i].type = "error"
        /\ \A j \in 1..(i - 1) : events[c][j].type # "done"

\* The messages of the call's conversation, as fetched from the store.
FetchedMessages(c) == get_messages(conversations, closure[c].conversation_id)

\* What the conversation holds after the turn when the assistant message
\* has the given text: the earlier messages, the question, the text.
TurnAppended(c, text) ==
    RoleContent(before[c])
        \o << [role |-> "user", content |-> closure[c].question],
              [role |-> "assistant", content |-> text] >>

\* The order of event types the protocol prescribes.
EventGrammar(types) ==
    LET n == Len(types)
    IN  /\ n >= 2
        /\ types[1] = "message_id"
        /\ types[n] = "done"
        /\ \A i \in 2..(n - 1) : types[i] \in {"token", "error"}
        /\ \A i \in 2..(n - 1) : types[i] = "error" => i = n - 1

(***************************************************************************)
(* C1.  Claimed: for every chat call whose stream runs to its end, the     *)
(* event types are one message_id, then zero or more token, then zero or   *)
(* one error, then exactly one done.                                       *)
(* The code breaks it twice: a call that names a conversation the store    *)
(* does not hold emits no message_id, and a Gateway connection that fails  *)
(* to close after the done event makes the except clause emit error and a  *)
(* second done.                                                            *)
(***************************************************************************)
C1_EventOrder == \A c \in Calls : Finished(c) => EventGrammar(EventTypes(c))

\* C1 in the second way: the call has its placeholder and still ends
\* message_id, token*, done, error, done.
C1_EventOrderWithPlaceholder ==
    \A c \in Calls : Finished(c) /\ HasPlaceholder(c) => EventGrammar(EventTypes(c))

(***************************************************************************)
(* C2.  Claimed: every opened stream emits done on every path, exactly     *)
(* once, and no event of the call follows it.                              *)
(* The first half holds under FairSpec: every opened stream emits done.    *)
(***************************************************************************)
C2_EventuallyDone == \A c \in Calls : (pc[c] = "open") ~> DoneEmitted(c)

(***************************************************************************)
(* C2, second half: a done event is the last event of its call.  It fails  *)
(* when closing the Gateway connection raises after the done event: the    *)
(* except clause emits error and done again.                               *)
(***************************************************************************)
C2_DoneOnceAndLast ==
    \A c \in Calls : \A i \in 1..Len(events[c]) :
        events[c][i].type = "done" => i = Len(events[c])

(***************************************************************************)
(* C3.  Claimed: in every call that opens a stream, also one with a        *)
(* caller-supplied conversationId, the first event is message_id with the  *)
(* id of the placeholder this call appended, sent before any Gateway       *)
(* request.  It fails for a conversationId the store does not hold: no     *)
(* placeholder is appended and the first event is a token.                 *)
(***************************************************************************)
C3_MessageIdFirst ==
    \A c \in Calls :
        /\ events[c] # <<>> => events[c][1].type = "message_id"
        /\ gateway[c] # <<>> => events[c] # <<>>
        /\ Started(c) /\ events[c] # <<>> =>
              /\ closure[c].assistant_message # Absent
              /\ events[c][1] = MessageIdEvent(closure[c].assistant_message.id)
              /\ LET msgs == get_messages(conversations, closure[c].conversation_id)
                 IN  \E i \in 1..Len(msgs) :
                        /\ msgs[i].id = closure[c].assistant_message.id
                        /\ msgs[i].role = "assistant"
                        /\ i > Len(before[c])

(***************************************************************************)
(* C4.  Claimed: after a chat call has emitted done on any path, also one  *)
(* that emitted an error event, its conversation holds exactly one new     *)
(* user message with the question and one new assistant message with all   *)
(* the streamed text.  It fails on the error path: the except clause does  *)
(* not write, so the assistant message stays empty after tokens were sent. *)
(***************************************************************************)
C4_PersistedOnEveryPath ==
    \A c \in Calls :
        HasPlaceholder(c) /\ DoneEmitted(c) =>
            RoleContent(FetchedMessages(c)) = TurnAppended(c, StreamedText(c))

(***************************************************************************)
(* C4, amended: after a chat call on an existing or newly created          *)
(* conversation has emitted done and no error event, the conversation      *)
(* holds the earlier messages, then one new user message with the question *)
(* and one new assistant message with all the streamed text (warning       *)
(* included).                                                              *)
(***************************************************************************)
C4_PersistedWithoutError ==
    \A c \in Calls :
        HasPlaceholder(c) /\ DoneEmitted(c) /\ NoError(c) =>
            RoleContent(FetchedMessages(c)) = TurnAppended(c, StreamedText(c))

\* A call on the earlier conversation completed with a model token and the
\* warning, without an error event.
C4_Witness ==
    \E c \in Calls :
        /\ Finished(c) /\ HasPlaceholder(c) /\ NoError(c)
        /\ before[c] # <<>>
        /\ Len(TokenContents(c)) = 2
        /\ TokenContents(c)[1] \in GatewayTokens
        /\ TokenContents(c)[2] = WarningMessage

(***************************************************************************)
(* C5.  Claimed: within one chat turn the placeholder's content is written *)
(* exactly once between its creation and the done event, on the refusal,   *)
(* greeting, completion and error paths alike.  It fails on the error      *)
(* path, where the placeholder is never written.                           *)
(***************************************************************************)
C5_WrittenExactlyOnce ==
    \A c \in Calls :
        HasPlaceholder(c) =>
            /\ Len(writes[c]) <= 1
            /\ DoneEmitted(c) => Len(writes[c]) = 1

(***************************************************************************)
(* C5, amended: the placeholder's content is written at most once, and     *)
(* only the placeholder is written; when done is emitted with no error     *)
(* event before it (refusal, greeting, completion) it has been written     *)
(* exactly once, and when an error event came before done it has not been  *)
(* written at all.                                                         *)
(***************************************************************************)
C5_WrittenOnceUnlessError ==
    \A c \in Calls :
        HasPlaceholder(c) =>
            /\ Len(writes[c]) <= 1
            /\ \A i \in 1..Len(writes[c]) : writes[c][i] = closure[c].assistant_message.id
            /\ DoneEmitted(c) /\ ~ErrorBeforeDone(c) => Len(writes[c]) = 1
            /\ ErrorBeforeDone(c) => Len(writes[c]) = 0

\* A call completed through the Gateway and wrote its placeholder once.
C5_Witness ==
    \E c \in Calls :
        /\ Finished(c) /\ HasPlaceholder(c) /\ NoError(c)
        /\ gatewayAnswer[c] = [status_code |-> 200]
        /\ writes[c] = <<closure[c].assistant_message.id>>

\* The characters of s that are not whitespace, counted.
NonWhitespaceCount(s) == Cardinality({i \in 1..Len(s) : Char(s, i) \notin Whitespace})

\* The document passes the content threshold.
Usable(doc) == Len(Strip(doc.content)) >= MinContentLen

SingleCall(c) == Started(c) /\ closure[c].kind = "single"

MultiCall(c) == Started(c) /\ closure[c].kind = "multi"

\* The call answers with the fixed text alone and never asks the Gateway:
\* no request, no token but the text, and the text is the one token once
\* the stream has ended.
AnswersOnlyWith(c, text) ==
    /\ gateway[c] = <<>>
    /\ LET tokens == TokenContents(c)
       IN  /\ Len(tokens) <= 1
           /\ \A i \in 1..Len(tokens) : tokens[i] = text
           /\ DoneEmitted(c) => tokens = <<text>>

\* The content of the call's placeholder in the store.
PlaceholderContent(c) ==
    LET msgs == FetchedMessages(c)
        i == CHOOSE k \in 1..Len(msgs) : msgs[k].id = closure[c].assistant_message.id
    IN  msgs[i].content

(***************************************************************************)
(* C6.  Claimed: for a document with fewer than 10 non-whitespace          *)
(* characters, a single-document call emits exactly one token, the fixed   *)
(* refusal, and makes no Gateway call.  It fails for "a b c defg": seven   *)
(* non-whitespace characters, but ten characters once stripped, so the     *)
(* call goes on to the greeting test and the Gateway.                      *)
(***************************************************************************)
C6_RefusedBelowTenNonWhitespace ==
    \A c \in Calls :
        SingleCall(c) /\ NonWhitespaceCount(closure[c].documents[1].content) < 10 =>
            AnswersOnlyWith(c, RefusalMessage)

(***************************************************************************)
(* C6, amended: for a document whose content, stripped of leading and      *)
(* trailing whitespace, has fewer than 10 characters (empty and            *)
(* whitespace-only content included), a single-document call emits exactly *)
(* one token, the fixed refusal, and makes no Gateway call.                *)
(***************************************************************************)
C6_RefusedBelowTenStripped ==
    \A c \in Calls :
        SingleCall(c) /\ ~Usable(closure[c].documents[1]) =>
            AnswersOnlyWith(c, RefusalMessage)

\* A call on a document of nine characters between whitespace ended with
\* the refusal as its one token.
C6_Witness ==
    \E c \in Calls :
        /\ SingleCall(c) /\ Finished(c)
        /\ Len(closure[c].documents[1].content) >= MinContentLen
        /\ ~Usable(closure[c].documents[1])
        /\ TokenContents(c) = <<RefusalMessage>>
        /\ gateway[c] = <<>>

\* The greeting tokens, and each followed by one "!".
GreetingForms ==
    {greeting_patterns[i] : i \in 1..Len(greeting_patterns)}
        \cup {greeting_patterns[i] \o "!" : i \in 1..Len(greeting_patterns)}

GreetingQuestion(c) == Lower(Strip(closure[c].question)) \in GreetingForms

\* The canned engagement response of the call.
CannedResponse(c) ==
    IF closure[c].kind = "single"
    THEN "What can I tell you about the document?"
    ELSE "What can I tell you about these documents: "
            \o QuotedNames(SelectSeq(closure[c].documents, Usable)) \o "?"

GreetingAnswered(c) ==
    LET canned == CannedResponse(c)
    IN  /\ AnswersOnlyWith(c, canned)
        /\ DoneEmitted(c) /\ HasPlaceholder(c) =>
              /\ PlaceholderContent(c) = canned
              /\ RoleContent(FetchedMessages(c)) = TurnAppended(c, canned)

(***************************************************************************)
(* C7.  Claimed: for a question that, trimmed and lower-cased, is a        *)
(* greeting token optionally followed by one "!", a chat call, whatever    *)
(* the document content, makes no Gateway call, returns the canned         *)
(* engagement response as its only token and persists it as the assistant  *)
(* message.  It fails when the content is below the threshold: the         *)
(* refusal comes first.                                                    *)
(***************************************************************************)
C7_GreetingWhateverContent ==
    \A c \in Calls : Started(c) /\ GreetingQuestion(c) => GreetingAnswered(c)

(***************************************************************************)
(* C7, amended: for such a greeting question, a chat call whose document   *)
(* passes the content threshold (single-document) or that has at least one *)
(* document passing it (multi-document) makes no Gateway call, returns the *)
(* canned engagement response as its only token and persists it as the     *)
(* assistant message of the turn.                                          *)
(***************************************************************************)
C7_GreetingOnUsableContent ==
    \A c \in Calls :
        /\ Started(c)
        /\ GreetingQuestion(c)
        /\ \E i \in 1..Len(closure[c].documents) : Usable(closure[c].documents[i])
        => GreetingAnswered(c)

\* A multi-document call with the question " Hi! ", one document excluded
\* and one usable, ended with the canned response persisted.
C7_Witness ==
    \E c \in Calls :
        /\ MultiCall(c) /\ Finished(c) /\ HasPlaceholder(c)
        /\ closure[c].question # Lower(Strip(closure[c].question))
        /\ GreetingQuestion(c)
        /\ \E i \in 1..Len(closure[c].documents) : Usable(closure[c].documents[i])
        /\ \E i \in 1..Len(closure[c].documents) : ~Usable(closure[c].documents[i])
        /\ TokenContents(c) = <<CannedResponse(c)>>
        /\ PlaceholderContent(c) = CannedResponse(c)

\* The documents of the call below and above the content threshold.
Excluded(c) == SelectSeq(closure[c].documents, LAMBDA doc : ~Usable(doc))

Remaining(c) == SelectSeq(closure[c].documents, Usable)

\* Some documents of the call are below the threshold and some above it.
MixedDocuments(c) ==
    /\ \E i \in 1..Len(closure[c].documents) : ~Usable(closure[c].documents[i])
    /\ \E i \in 1..Len(closure[c].documents) : Usable(closure[c].documents[i])

\* How an exclusion notice opens: the warning sign and "Note:".  The
\* single-document warning opens with two line breaks, model tokens with
\* neither.
NoticeOpening == "(!) Note: "

StartsWith(s, prefix) == Len(s) >= Len(prefix) /\ SubSeq(s, 1, Len(prefix)) = prefix

\* The positions of the exclusion notices among the tokens.
NoticePositions(tokens) == {i \in 1..Len(tokens) : StartsWith(tokens[i], NoticeOpening)}

\* The positions of the model-generated tokens among the tokens.
ModelTokenPositions(tokens) == {i \in 1..Len(tokens) : tokens[i] \in GatewayTokens}

\* The names in double quotes, separated by ", ", in the given order.
NamesVerbatim(docs) ==
    Join(", ", [i \in 1..Len(docs) |-> "\"" \o docs[i].name \o "\""])

\* One exclusion notice, the first token, names every excluded document:
\* it opens with their number and their quoted names in request order.
NoticeFirst(tokens, excluded) ==
    /\ NoticePositions(tokens) = {1}
    /\ StartsWith(tokens[1],
           NoticeOpening \o ToString(Len(excluded))
               \o " document(s) were excluded due to insufficient content: "
               \o NamesVerbatim(excluded))

\* The call goes on with the remaining documents: from the Gateway request
\* on the notice has been sent, the one request shows exactly the remaining
\* documents, and the stream does not end without the request.
ProceedsWithRemaining(c) ==
    LET tokens == TokenContents(c)
        remaining == Remaining(c)
    IN  /\ gateway[c] # <<>> =>
              /\ NoticeFirst(tokens, Excluded(c))
              /\ Len(gateway[c]) = 1
              /\ gateway[c][1].prompt.documents =
                    [i \in 1..Len(remaining) |->
                        [name |-> remaining[i].name, content |-> remaining[i].content]]
        /\ gateway[c] = <<>> => ModelTokenPositions(tokens) = {} /\ ~DoneEmitted(c)

(***************************************************************************)
(* C8.  Claimed: in a multi-document call with at least one document below *)
(* the content threshold and at least one above it, one exclusion-notice   *)
(* token with the name of every excluded document is emitted before any    *)
(* model-generated token, and the call proceeds with the remaining         *)
(* documents.  It fails for a greeting question: the canned response is    *)
(* the only token and no notice is sent.                                   *)
(***************************************************************************)
C8_ExclusionNotice ==
    \A c \in Calls : MultiCall(c) /\ MixedDocuments(c) => ProceedsWithRemaining(c)

(***************************************************************************)
(* C8, amended: in such a call whose question is not a greeting, one       *)
(* exclusion-notice token with the name of every excluded document is      *)
(* emitted before any model-generated token and before the Gateway         *)
(* request, and the call proceeds with the remaining documents.            *)
(***************************************************************************)
C8_ExclusionNoticeUnlessGreeting ==
    \A c \in Calls :
        MultiCall(c) /\ MixedDocuments(c) /\ ~GreetingQuestion(c) =>
            ProceedsWithRemaining(c)

\* A multi-document call with an excluded and a remaining document sent the
\* notice, then a model token, and ended.
C8_Witness ==
    \E c \in Calls :
        /\ MultiCall(c) /\ MixedDocuments(c) /\ ~GreetingQuestion(c)
        /\ Finished(c) /\ NoError(c)
        /\ NoticePositions(TokenContents(c)) = {1}
        /\ ModelTokenPositions(TokenContents(c)) = {2}

(***************************************************************************)
(* C9.  In a multi-document call where every supplied document is below    *)
(* the content threshold, the call makes no Gateway call, emits exactly    *)
(* one token, the fixed multi-document refusal, persists it in the         *)
(* placeholder, and then emits done: the refusal is the only token, it is  *)
(* in the store when it is sent, no error event is sent, the done event is *)
(* the call's next step after the token, and the stream ends with token,   *)
(* done.                                                                   *)
(***************************************************************************)
C9_MultiRefusal ==
    \A c \in Calls :
        /\ MultiCall(c)
        /\ \A i \in 1..Len(closure[c].documents) : ~Usable(closure[c].documents[i])
        =>
            /\ AnswersOnlyWith(c, MultiRefusalMessage)
            /\ NoError(c)
            /\ CountType(c, "done") <= 1
            /\ TokenContents(c) # <<>> /\ HasPlaceholder(c) =>
                  /\ PlaceholderContent(c) = MultiRefusalMessage
                  /\ writes[c] = <<closure[c].assistant_message.id>>
            /\ TokenContents(c) # <<>> /\ ~DoneEmitted(c) => ENABLED YieldDone(c)
            /\ Finished(c) =>
                  /\ DoneEmitted(c)
                  /\ events[c][Len(events[c])] = DoneEvent
                  /\ events[c][Len(events[c]) - 1] = TokenEvent(MultiRefusalMessage)

\* A multi-document call on two documents below the threshold ended with
\* the refusal in its placeholder.
C9_Witness ==
    \E c \in Calls :
        /\ MultiCall(c) /\ Finished(c) /\ HasPlaceholder(c)
        /\ Len(closure[c].documents) = 2
        /\ Len(Remaining(c)) = 0
        /\ PlaceholderContent(c) = MultiRefusalMessage
        /\ EventTypes(c) = <<"message_id", "token", "done">>

\* The Gateway answered the call's request with a failure.
GatewayFailed(c) ==
    \/ gatewayAnswer[c] = ConnectError
    \/ /\ "status_code" \in DOMAIN gatewayAnswer[c]
       /\ gatewayAnswer[c].status_code # 200

(***************************************************************************)
(* C10.  When the Gateway answers the generate request with a non-200      *)
(* status or the connection fails, the chat call emits no model token,     *)
(* emits exactly one error event carrying a message, and then emits done:  *)
(* the error event is there as soon as the failure is known, the done      *)
(* event is the call's next step after it, nothing but one done follows    *)
(* it, and the stream ends with error, done.                               *)
(***************************************************************************)
C10_GatewayFailure ==
    \A c \in Calls :
        Started(c) /\ GatewayFailed(c) =>
            /\ ModelTokenPositions(TokenContents(c)) = {}
            /\ CountType(c, "error") = 1
            /\ \A i \in 1..Len(events[c]) :
                  events[c][i].type = "error" =>
                      /\ Len(events[c][i].content) > Len("Error during streaming: ")
                      /\ \A j \in (i + 1)..Len(events[c]) :
                            events[c][j] = DoneEvent /\ j = Len(events[c])
            /\ ~DoneEmitted(c) => ENABLED YieldDone(c)
            /\ Finished(c) =>
                  /\ events[c][Len(events[c])] = DoneEvent
                  /\ events[c][Len(events[c]) - 1].type = "error"

\* A multi-document call sent its exclusion notice, got status 500 from
\* the Gateway and ended with error, done.
C10_Witness ==
    \E c \in Calls :
        /\ MultiCall(c) /\ Finished(c)
        /\ gatewayAnswer[c] = [status_code |-> 500]
        /\ EventTypes(c) = <<"message_id", "token", "error", "done">>

\* Call c reads one line of the Gateway stream in this step.
ReadsLine(c) == pc[c] = "streaming" /\ linesRead'[c] = linesRead[c] + 1

\* The step relays at most one model token and keeps the accumulated text
\* equal to what was relayed.
RelaysAtMostOneToken(c) ==
    \/ events'[c] = events[c] /\ full_response'[c] = full_response[c]
    \/ \E t \in GatewayTokens :
          /\ events'[c] = Append(events[c], TokenEvent(t))
          /\ full_response'[c] = full_response[c] \o t

(***************************************************************************)
(* C11.  Claimed: a Gateway stream line that is not valid JSON, is blank,  *)
(* or has no non-empty response field produces no event and does not end   *)
(* the call; later valid lines are still relayed in order, the accumulated *)
(* text holds exactly the valid tokens, and the call reaches done without  *)
(* an error event.  Stated as a property of every step that reads a line:  *)
(* the call goes on streaming, no error event is added, and the step       *)
(* relays the line's token or nothing.  It fails for a line that is valid  *)
(* JSON but no object (a number, null): the test for the response field    *)
(* raises TypeError, which the line loop does not catch, and the call ends *)
(* with an error event.                                                    *)
(***************************************************************************)
C11_LinesNeverEndTheCall ==
    [][\A c \in Calls :
          ReadsLine(c) =>
              /\ pc'[c] = "streaming"
              /\ \A i \in 1..Len(events'[c]) : events'[c][i].type # "error"
              /\ RelaysAtMostOneToken(c)]_vars


(***************************************************************************)
(* The Grounding Verifier, as the claims describe it.                      *)
(***************************************************************************)

RefusalPhrases == {"cannot answer", "not present in", "not found in", "information is not"}

TriggerPhrases == {"document", "according to", "the text", "states that", "mentions"}

ContainsAny(text, phrases) == \E p \in phrases : Contains(text, p)

\* The text is a refusal.
Refuses(text) == ContainsAny(Lower(text), RefusalPhrases)

\* Some trigger holds of the text: a phrase or a quoted substring.
SomeTrigger(text) == ContainsAny(Lower(text), TriggerPhrases) \/ HasQuotedText(text)

\* The text refers to the document.
RefersToDocument(text) == Len(text) > 50 /\ SomeTrigger(text)

\* The verifier flags the text.
Ungrounded(text) == ~RefersToDocument(text) /\ ~Refuses(text) /\ Len(text) > 20

\* The tokens of the call that the model generated, and their text.
ModelTokens(c) == SelectSeq(TokenContents(c), LAMBDA t : t \in GatewayTokens)

ModelText(c) == Join("", ModelTokens(c))

\* The number of warning tokens of the call.
Warnings(c) == Len(SelectSeq(TokenContents(c), LAMBDA t : t = WarningMessage))

\* The Gateway stream of the call has completed and the call has just sent
\* its done event.
StreamCompleted(c) == pc[c] = "closing"

(***************************************************************************)
(* C12.  In single-document chat, once the Gateway stream has completed,   *)
(* the fixed warning is emitted as one extra token after all model tokens  *)
(* and before done, and is appended to the persisted text, if and only if  *)
(* the accumulated response has no document reference, is no refusal and   *)
(* is longer than 20 characters.  Generation is never blocked or retried:  *)
(* one request is sent, every model token is relayed and kept, and no      *)
(* warning is sent at any other time.                                      *)
(***************************************************************************)
C12_WarningIffUngrounded ==
    \A c \in Calls :
        SingleCall(c) =>
            LET tokens == TokenContents(c)
                text == ModelText(c)
                warned == Warnings(c)
            IN  /\ warned <= 1
                /\ Len(gateway[c]) <= 1
                /\ warned = 1 =>
                      /\ pc[c] # "streaming"
                      /\ tokens = Append(ModelTokens(c), WarningMessage)
                      /\ Ungrounded(text)
                /\ StreamCompleted(c) =>
                      /\ warned = 1 <=> Ungrounded(text)
                      /\ events[c][Len(events[c])] = DoneEvent
                      /\ CountType(c, "done") = 1
                      /\ Len(events[c]) >= 2 /\ warned = 1 =>
                            events[c][Len(events[c]) - 1] = TokenEvent(WarningMessage)
                      /\ HasPlaceholder(c) =>
                            PlaceholderContent(c) =
                                (IF warned = 1 THEN text \o WarningMessage ELSE text)

\* A completed single-document call whose answer was flagged and persisted
\* with the warning.
C12_Witness ==
    \E c \in Calls :
        /\ SingleCall(c) /\ StreamCompleted(c) /\ HasPlaceholder(c)
        /\ Warnings(c) = 1
        /\ PlaceholderContent(c) = ModelText(c) \o WarningMessage

\* A completed single-document call whose answer is a refusal longer than 20
\* characters, without the warning.
C12_WitnessRefusal ==
    \E c \in Calls :
        /\ SingleCall(c) /\ StreamCompleted(c)
        /\ Refuses(ModelText(c)) /\ Len(ModelText(c)) > 20
        /\ Warnings(c) = 0

\* All text the call accumulated before the verifier: every token but the
\* warning.
AccumulatedText(c) == Join("", SelectSeq(TokenContents(c), LAMBDA t : t # WarningMessage))

\* The first 15 characters of the name, lower-cased.
NamePrefix(name) == Lower(SubSeq(name, 1, IF Len(name) < 15 THEN Len(name) ELSE 15))

\* The text contains the name prefix of one of the documents.
NamesSomeDocument(text, docs) ==
    \E i \in 1..Len(docs) : Contains(Lower(text), NamePrefix(docs[i].name))

(***************************************************************************)
(* C13.  Claimed: in multi-document chat the Grounding Verifier runs too:  *)
(* a completed response longer than 20 characters that is no refusal and   *)
(* has no document reference (no trigger phrase, no quoted text, no name   *)
(* prefix of a valid document) gets the warning token before done and the  *)
(* warning appended to the persisted text.  The multi-document generator   *)
(* has no verification step, so this fails.                                *)
(***************************************************************************)
C13_MultiWarning ==
    \A c \in Calls :
        MultiCall(c) /\ StreamCompleted(c) =>
            LET text == AccumulatedText(c)
            IN  ( /\ Len(text) > 20
                  /\ ~Refuses(text)
                  /\ ~RefersToDocument(text)
                  /\ ~NamesSomeDocument(text, Remaining(c)) ) =>
                    /\ Warnings(c) = 1
                    /\ events[c][Len(events[c]) - 1] = TokenEvent(WarningMessage)
                    /\ HasPlaceholder(c) => PlaceholderContent(c) = text \o WarningMessage

\* The two example responses of the grounding check.
ReportExample == "The report states that revenue grew 10%."

SkyExample ==
    "I think the sky is blue and unrelated facts about history are interesting today for sure."

\* A completed single-document call whose accumulated model text is the text.
CompletedWith(c, text) == SingleCall(c) /\ StreamCompleted(c) /\ ModelText(c) = text

\* The call sent the warning as its last token, directly before done, and
\* persisted the text with the warning appended verbatim.
WarningAppended(c, text) ==
    /\ TokenContents(c) = Append(ModelTokens(c), WarningMessage)
    /\ events[c][Len(events[c]) - 1] = TokenEvent(WarningMessage)
    /\ HasPlaceholder(c) => PlaceholderContent(c) = text \o WarningMessage

\* The call sent no warning and persisted the bare text.
NoWarningAppended(c, text) ==
    /\ Warnings(c) = 0
    /\ HasPlaceholder(c) => PlaceholderContent(c) = text

(***************************************************************************)
(* C14.  Claimed: for the accumulated response text "The report states     *)
(* that revenue grew 10%." the verifier yields has_document_reference =    *)
(* true and is_refusal = false, so no warning is appended or emitted.  The *)
(* text has 40 characters, not more than 50, so this fails.                *)
(***************************************************************************)
C14_ReportExampleNotFlagged ==
    \A c \in Calls :
        CompletedWith(c, ReportExample) =>
            /\ has_document_reference(ReportExample)
            /\ ~is_refusal(ReportExample)
            /\ NoWarningAppended(c, ReportExample)

\* C14 as the verifier behaves: the text is 40 characters long, so
\* has_document_reference is false although it contains "states that";
\* is_refusal is false, and the warning is appended and emitted.
C14_ReportExampleFlagged ==
    \A c \in Calls :
        CompletedWith(c, ReportExample) =>
            /\ Len(ReportExample) = 40
            /\ ~has_document_reference(ReportExample)
            /\ ~is_refusal(ReportExample)
            /\ WarningAppended(c, ReportExample)

\* A completed call whose model text is the report example.
C14_Witness ==
    \E c \in Calls : CompletedWith(c, ReportExample) /\ HasPlaceholder(c)

(***************************************************************************)
(* C15.  For the accumulated response text "I think the sky is blue and    *)
(* unrelated facts about history are interesting today for sure." the      *)
(* verifier yields has_document_reference = false and is_refusal = false,  *)
(* so the fixed warning is appended verbatim and emitted as a token.       *)
(***************************************************************************)
C15_SkyExampleFlagged ==
    \A c \in Calls :
        CompletedWith(c, SkyExample) =>
            /\ ~has_document_reference(SkyExample)
            /\ ~is_refusal(SkyExample)
            /\ WarningAppended(c, SkyExample)

\* A completed call whose model text is the sky example.
C15_Witness ==
    \E c \in Calls : CompletedWith(c, SkyExample) /\ HasPlaceholder(c)

(***************************************************************************)
(* C16.  has_document_reference is true if and only if the response is     *)
(* longer than 50 characters and at least one trigger holds: it contains,  *)
(* whatever the case, "document", "according to", "the text", "states      *)
(* that" or "mentions", or it contains a quoted substring.  So every       *)
(* response of 50 characters or fewer is classified as not referencing     *)
(* the document, whatever it contains.  Checked of the accumulated text of *)
(* every completed single-document call.                                   *)
(***************************************************************************)
C16_ReferenceIffLongWithTrigger ==
    \A c \in Calls :
        SingleCall(c) /\ StreamCompleted(c) =>
            LET text == ModelText(c)
            IN  /\ has_document_reference(text) <=> RefersToDocument(text)
                /\ Len(text) <= 50 => ~has_document_reference(text)

\* A completed call whose text is longer than 50 characters and has quoted
\* text as its only trigger: it is classified as referencing the document.
C16_Witness ==
    \E c \in Calls :
        /\ SingleCall(c) /\ StreamCompleted(c)
        /\ Len(ModelText(c)) > 50
        /\ ~ContainsAny(Lower(ModelText(c)), TriggerPhrases)
        /\ has_document_reference(ModelText(c))

\* A completed call whose text has a trigger phrase in upper case and is
\* longer than 50 characters.
C16_WitnessUpperCase ==
    \E c \in Calls :
        /\ SingleCall(c) /\ StreamCompleted(c)
        /\ ~ContainsAny(ModelText(c), TriggerPhrases)
        /\ ~HasQuotedText(ModelText(c))
        /\ has_document_reference(ModelText(c))

\* A completed call whose text holds triggers, a phrase and quoted text, and
\* is not longer than 50 characters.
C16_WitnessShort ==
    \E c \in Calls :
        /\ SingleCall(c) /\ StreamCompleted(c)
        /\ Len(ModelText(c)) <= 50
        /\ ContainsAny(Lower(ModelText(c)), TriggerPhrases)
        /\ HasQuotedText(ModelText(c))
        /\ ~has_document_reference(ModelText(c))

(***************************************************************************)
(* Requests at fault, as the claims describe them.                         *)
(***************************************************************************)

EmptyQuestion(request) == request.question = ""

NoModelResolvable(request) == request.model \in {None, ""} /\ OLLAMA_MODEL \in {None, ""}

UnknownDocument(request) == request.documentId \notin DOMAIN documents

EmptyDocumentIds(request) == Len(request.documentIds) = 0

SomeUnknownDocument(request) ==
    \E i \in 1..Len(request.documentIds) : request.documentIds[i] \notin DOMAIN documents

\* The status codes prescribed for the faults of a request.
ChatFaultCodes(request) ==
    (IF EmptyQuestion(request) THEN {400} ELSE {})
        \cup (IF UnknownDocument(request) THEN {404} ELSE {})
        \cup (IF NoModelResolvable(request) THEN {400} ELSE {})

MultiChatFaultCodes(request) ==
    (IF EmptyQuestion(request) THEN {400} ELSE {})
        \cup (IF EmptyDocumentIds(request) THEN {400} ELSE {})
        \cup (IF SomeUnknownDocument(request) THEN {404} ELSE {})
        \cup (IF NoModelResolvable(request) THEN {400} ELSE {})

\* After the step call c stands rejected with one of the codes: no stream
\* is open, no event was emitted and the Gateway was not called.
RejectedWith(c, codes) ==
    /\ pc'[c] = "rejected"
    /\ http'[c].status_code \in codes
    /\ events'[c] = <<>>
    /\ gateway'[c] = <<>>
    /\ gatewayAnswer'[c] = NoAnswer

(***************************************************************************)
(* C17.  A chat request with an empty question, an empty documentIds list  *)
(* (multi-document), an unknown document id (any one id in multi-document) *)
(* or no resolvable model is answered with a standard error response (400, *)
(* 400, 404, 400) before any stream is opened: no SSE event is emitted and *)
(* no Gateway call is made, then or later.  A request with several faults  *)
(* gets the code of one of them.                                           *)
(***************************************************************************)
C17_FaultyRequestsRejected ==
    [][\A c \in Calls :
          /\ pc[c] = "idle" /\ pc'[c] # "idle" =>
                /\ \A request \in ChatRequests :
                      ChatFaultCodes(request) # {} /\ Chat(c, request) =>
                          RejectedWith(c, ChatFaultCodes(request))
                /\ \A request \in MultiChatRequests :
                      MultiChatFaultCodes(request) # {} /\ MultiChat(c, request) =>
                          RejectedWith(c, MultiChatFaultCodes(request))
          /\ pc[c] = "rejected" =>
                /\ pc'[c] = "rejected"
                /\ events'[c] = <<>>
                /\ gateway'[c] = <<>>]_vars

\* A multi-document request that names an unknown document was answered
\* with 404, without any event or Gateway call.
C17_Witness ==
    \E c \in Calls :
        /\ pc[c] = "rejected"
        /\ http[c] = [status_code |-> 404, detail |-> "Document " \o MissingDocId \o " not found"]
        /\ events[c] = <<>>
        /\ gateway[c] = <<>>

\* A request without a resolvable model was answered with 400.
C17_WitnessNoModel ==
    \E c \in Calls :
        /\ pc[c] = "rejected"
        /\ http[c].status_code = 400
        /\ http[c].detail = "No model specified. Please select a model from the dropdown."
        /\ events[c] = <<>>

\* The request names a conversation the store does not hold.
UnknownConversation(request) ==
    /\ request.conversationId \notin {None, ""}
    /\ request.conversationId \notin DOMAIN conversations

(***************************************************************************)
(* C18.  Claimed: a chat request that names a conversationId which does    *)
(* not exist in the store is rejected pre-stream with 404: no stream is    *)
(* opened, no event is emitted and no Gateway call is made.  (A request    *)
(* with another fault as well may get that fault's code.)  The handlers    *)
(* never look the conversation up, so this fails.                          *)
(***************************************************************************)
C18_UnknownConversationRejected ==
    [][\A c \in Calls :
          pc[c] = "idle" /\ pc'[c] # "idle" =>
              /\ \A request \in ChatRequests :
                    UnknownConversation(request) /\ Chat(c, request) =>
                        RejectedWith(c, {404} \cup ChatFaultCodes(request))
              /\ \A request \in MultiChatRequests :
                    UnknownConversation(request) /\ MultiChat(c, request) =>
                        RejectedWith(c, {404} \cup MultiChatFaultCodes(request))]_vars

\* The conversation of the call holds, after its earlier messages, the user
\* message with the literal question and then the call's placeholder.
UserThenPlaceholder(c) ==
    LET msgs == FetchedMessages(c)
        n == Len(before[c])
    IN  /\ Len(msgs) = n + 2
        /\ SubSeq(msgs, 1, n) = before[c]
        /\ msgs[n + 1].role = "user"
        /\ msgs[n + 1].content = closure[c].question
        /\ msgs[n + 2].role = "assistant"
        /\ closure[c].assistant_message # Absent
        /\ msgs[n + 2].id = closure[c].assistant_message.id

(***************************************************************************)
(* C19.  Claimed: in every chat turn that opens a stream, the user message *)
(* with the literal question is appended before the assistant placeholder, *)
(* the placeholder is appended before the first event is emitted, and the  *)
(* user message stays persisted with its content unchanged on every later  *)
(* path (refusal, greeting, error, completion).  As a state property: from *)
(* the opening of the stream on, events or none, the conversation holds    *)
(* the user message followed by the placeholder.  A turn on an unknown     *)
(* conversationId opens a stream and appends nothing, so this fails.       *)
(***************************************************************************)
C19_UserMessageBeforePlaceholder ==
    \A c \in Calls : Started(c) => UserThenPlaceholder(c)

\* C19 for the turns whose conversation exists: there the claim holds on
\* every path.
C19_UserMessageWhenConversationExists ==
    \A c \in Calls :
        Started(c) /\ closure[c].conversation_id \in DOMAIN conversations =>
            UserThenPlaceholder(c)

\* The request names no conversation.
NoConversationId(request) == request.conversationId \in {None, ""}

\* The two messages of a turn, by role and content.
TurnMessages(request) ==
    << [role |-> "user", content |-> request.question],
       [role |-> "assistant", content |-> ""] >>

\* The step created exactly one conversation, scoped to the given document
\* id(s), and appended the two messages of the turn there and nowhere else.
CreatesOneConversation(request, document_id, document_ids) ==
    /\ DOMAIN conversations \subseteq DOMAIN conversations'
    /\ Cardinality(DOMAIN conversations' \ DOMAIN conversations) = 1
    /\ \A k \in DOMAIN conversations' \ DOMAIN conversations :
          /\ conversations'[k].document_id = document_id
          /\ conversations'[k].document_ids = document_ids
          /\ RoleContent(conversations'[k].messages) = TurnMessages(request)
    /\ \A k \in DOMAIN conversations : conversations'[k] = conversations[k]

\* The step created no conversation and appended the two messages of the
\* turn to the conversation the request names, and nowhere else.
ReusesConversation(request) ==
    /\ DOMAIN conversations' = DOMAIN conversations
    /\ request.conversationId \in DOMAIN conversations'
    /\ LET old == conversations[request.conversationId].messages
           new == conversations'[request.conversationId].messages
       IN  /\ Len(new) = Len(old) + 2
           /\ SubSeq(new, 1, Len(old)) = old
           /\ RoleContent(SubSeq(new, Len(old) + 1, Len(new))) = TurnMessages(request)
    /\ \A k \in DOMAIN conversations \ {request.conversationId} :
          conversations'[k] = conversations[k]

\* The request reaches the conversation step of its handler.
ChatResolves(request) == ~EmptyQuestion(request) /\ ~UnknownDocument(request)

MultiChatResolves(request) ==
    ~EmptyQuestion(request) /\ ~EmptyDocumentIds(request) /\ ~SomeUnknownDocument(request)

\* What the claim C20 asks of the step of call c, for the requests that
\* satisfy the condition.
ResolvesConversation(c, Covered(_)) ==
    pc[c] = "idle" /\ pc'[c] # "idle" =>
        /\ \A request \in ChatRequests :
              ChatResolves(request) /\ Covered(request) /\ Chat(c, request) =>
                  IF NoConversationId(request)
                  THEN CreatesOneConversation(request, request.documentId, <<>>)
                  ELSE ReusesConversation(request)
        /\ \A request \in MultiChatRequests :
              MultiChatResolves(request) /\ Covered(request) /\ MultiChat(c, request) =>
                  IF NoConversationId(request)
                  THEN CreatesOneConversation(request, None, request.documentIds)
                  ELSE ReusesConversation(request)

(***************************************************************************)
(* C20.  Claimed: a chat call without a conversationId creates exactly one *)
(* new conversation scoped to the request's document id(s) and appends its *)
(* messages there; a chat call with a conversationId creates no            *)
(* conversation and appends its two messages to that conversation only.    *)
(* Stated of every call that reaches the conversation step.  A call with   *)
(* an unknown conversationId appends nothing, so this fails.               *)
(***************************************************************************)
C20_ConversationResolved ==
    [][\A c \in Calls : ResolvesConversation(c, LAMBDA request : TRUE)]_vars

\* C20 for the calls that name no conversation or an existing one: there
\* the claim holds.
C20_ConversationResolvedWhenKnown ==
    [][\A c \in Calls :
          ResolvesConversation(c, LAMBDA request : ~UnknownConversation(request))]_vars

\* The messages of the call's conversation once the question is appended,
\* by role and content.
MessagesWithQuestion(c) ==
    Append(RoleContent(before[c]), [role |-> "user", content |-> closure[c].question])

\* The most recent min(6, n) of the messages, in their order.
MostRecentSix(msgs) ==
    LET n == Len(msgs)
        k == IF n < 6 THEN n ELSE 6
    IN  SubSeq(msgs, n - k + 1, n)

\* The lines "role: content" of the messages, one per line.
HistoryLines(msgs) ==
    Join("\n", [i \in 1..Len(msgs) |-> msgs[i].role \o ": " \o msgs[i].content])

\* The history of call c is the window over its conversation: the call holds
\* it as role/content pairs ending with the current question, the prompt of
\* its request carries its lines, and the store holds the earlier messages,
\* the question and the placeholder and nothing else.
HistoryIsWindow(c) ==
    LET window == MostRecentSix(MessagesWithQuestion(c))
    IN  /\ closure[c].context_messages = window
        /\ window[Len(window)] = [role |-> "user", content |-> closure[c].question]
        /\ \A i \in 1..Len(gateway[c]) :
              gateway[c][i].prompt.context_history = HistoryLines(window)
        /\ pc[c] = "open" =>
              /\ closure[c].conversation_id \in DOMAIN conversations
              /\ RoleContent(FetchedMessages(c)) = TurnAppended(c, "")

(***************************************************************************)
(* C21.  Claimed: the history placed in the prompt is the most recent      *)
(* min(6, n) messages of the conversation in chronological order, as       *)
(* role/content pairs, read after the current user message is appended and *)
(* before the placeholder is appended: its last entry is always the        *)
(* current question, it never contains the current turn's empty            *)
(* placeholder, and building it writes nothing to the store.  A turn on an *)
(* unknown conversationId has an empty history, so this fails.             *)
(***************************************************************************)
C21_HistoryWindow ==
    \A c \in Calls : Started(c) => HistoryIsWindow(c)

\* C21 for the turns whose conversation exists: there the claim holds.
C21_HistoryWindowWhenConversationExists ==
    \A c \in Calls :
        Started(c) /\ closure[c].conversation_id \in DOMAIN conversations =>
            HistoryIsWindow(c)

\* A request was sent for a turn on the conversation of seven messages: the
\* history has six entries and leaves out the oldest message.
C21_WindowSlides ==
    \E c \in Calls :
        /\ Started(c) /\ gateway[c] # <<>>
        /\ Len(before[c]) = 6
        /\ Len(closure[c].context_messages) = 6
        /\ closure[c].context_messages[1] = RoleContent(before[c])[2]

(***************************************************************************)
(* C22.  Claimed: under every interleaving of concurrent chat calls,       *)
(* including two calls on the same conversation, the terminal content      *)
(* update of a call is applied to the placeholder message that this call   *)
(* created (the id it emitted in message_id) and to no other message: each *)
(* call owns its placeholder exclusively.  The update writes the last      *)
(* message of the conversation, whoever appended it, so this fails.        *)
(***************************************************************************)
C22_UpdatesOwnPlaceholder ==
    \A c \in Calls :
        HasPlaceholder(c) =>
            \A i \in 1..Len(writes[c]) :
                /\ writes[c][i] = closure[c].assistant_message.id
                /\ MessageIdEvent(writes[c][i]) = events[c][1]

\* Two calls are on the same conversation.
SameConversation(c, d) ==
    /\ c # d /\ Started(c) /\ Started(d)
    /\ closure[c].conversation_id = closure[d].conversation_id

\* C22 for the calls that are alone on their conversation: there the claim
\* holds.
C22_UpdatesOwnPlaceholderWhenAlone ==
    \A c \in Calls :
        HasPlaceholder(c) /\ (\A d \in Calls : ~SameConversation(c, d)) =>
            \A i \in 1..Len(writes[c]) :
                /\ writes[c][i] = closure[c].assistant_message.id
                /\ MessageIdEvent(writes[c][i]) = events[c][1]

\* Call c is alone on its conversation.
AloneOnConversation(c) == \A d \in Calls : ~SameConversation(c, d)

\* What the call has written into its placeholder so far when it runs with
\* no other call at all: nothing before its update, then all its text.
SerialText(c) == IF writes[c] = <<>> THEN "" ELSE StreamedText(c)

\* Some started call is on conversation k.
InUse(k) == \E c \in Calls : Started(c) /\ closure[c].conversation_id = k

(***************************************************************************)
(* C23.  Chat calls on different conversations share no mutable state:     *)
(* under every interleaving at the I/O suspension points, each call's      *)
(* store writes change only its own conversation, and the content of every *)
(* conversation equals what running the calls one after another would      *)
(* produce: the earlier messages, the question and the call's own text.    *)
(* A conversation no call is on keeps its content.                         *)
(***************************************************************************)
C23_DifferentConversationsIsolated ==
    /\ \A c \in Calls :
          HasPlaceholder(c) /\ AloneOnConversation(c) =>
              /\ RoleContent(FetchedMessages(c)) = TurnAppended(c, SerialText(c))
              /\ \A i \in 1..Len(writes[c]) : writes[c][i] = closure[c].assistant_message.id
    /\ \A k \in DOMAIN PriorConversations :
          ~InUse(k) => conversations[k] = PriorConversations[k]

\* Two calls on different conversations have both finished, each after its
\* content update.
C23_Witness ==
    \E c \in Calls : \E d \in Calls :
        /\ c # d /\ Finished(c) /\ Finished(d)
        /\ HasPlaceholder(c) /\ HasPlaceholder(d)
        /\ closure[c].conversation_id # closure[d].conversation_id
        /\ writes[c] # <<>> /\ writes[d] # <<>>
        /\ StreamedText(c) # StreamedText(d)

\* The documents the call uses: its document, or its documents above the
\* content threshold.
UsedDocuments(c) ==
    IF closure[c].kind = "single" THEN closure[c].documents ELSE Remaining(c)

(***************************************************************************)
(* C24.  The chat prompt (single- and multi-document) contains each used   *)
(* document's full content verbatim, never truncated, whatever its length; *)
(* only summary generation truncates, to the first 2000 characters of the  *)
(* content.                                                                *)
(***************************************************************************)
C24_PromptHoldsFullContent ==
    \A c \in Calls :
        Started(c) =>
            \A r \in 1..Len(gateway[c]) :
                LET shown == gateway[c][r].prompt.documents
                    used == UsedDocuments(c)
                IN  /\ Len(shown) = Len(used)
                    /\ \A i \in 1..Len(used) :
                          LET stored == documents[used[i].id].content
                              summarised == truncated_content(stored)
                          IN  /\ shown[i].content = stored
                              /\ Len(shown[i].content) = Len(stored)
                              /\ IF Len(stored) > 2000
                                 THEN /\ Len(summarised) = 2000
                                      /\ summarised = SubSeq(stored, 1, 2000)
                                      /\ summarised # shown[i].content
                                 ELSE summarised = stored

\* A request was sent for a document of more than 2000 characters.
C24_Witness ==
    \E c \in Calls :
        /\ Started(c) /\ gateway[c] # <<>>
        /\ \E i \in 1..Len(UsedDocuments(c)) : Len(UsedDocuments(c)[i].content) > 2000

\* A multi-document request was sent with two used documents.
C24_WitnessMulti ==
    \E c \in Calls :
        /\ MultiCall(c) /\ gateway[c] # <<>>
        /\ Len(UsedDocuments(c)) = 2

(***************************************************************************)
(* The document and conversation endpoints, as the claims describe them.   *)
(***************************************************************************)

\* The conversation references the document, as document_id or inside
\* document_ids.
References(conv, document_id) ==
    \/ conv.document_id = document_id
    \/ \E i \in 1..Len(conv.document_ids) : conv.document_ids[i] = document_id

\* Call c takes its request in this step.
TakesRequest(c) == pc[c] = "idle" /\ pc'[c] # "idle"

\* The step answers call c with 404 and leaves the store as it is.
NotFoundNothingChanged(c) ==
    /\ pc'[c] = "rejected"
    /\ http'[c].status_code = 404
    /\ UNCHANGED <<documents, conversations, nextId>>

\* The step answers call c with success and removes the document together
\* with the conversations that reference it, and nothing else.
DocumentRemoved(c, document_id) ==
    /\ pc'[c] = "answered"
    /\ http'[c].status_code = 200
    /\ closure'[c].body = [success |-> TRUE]
    /\ DOMAIN documents' = DOMAIN documents \ {document_id}
    /\ \A d \in DOMAIN documents' : documents'[d] = documents[d]
    /\ DOMAIN conversations' =
           {k \in DOMAIN conversations : ~References(conversations[k], document_id)}
    /\ \A k \in DOMAIN conversations' : conversations'[k] = conversations[k]

(***************************************************************************)
(* C25.  Deleting an existing document succeeds and removes the document   *)
(* together with every conversation that references it (as document_id or  *)
(* inside document_ids), after which fetching that document returns 404;   *)
(* deleting an id that does not exist returns 404 and changes nothing in   *)
(* the store.                                                              *)
(***************************************************************************)
C25_DeleteRemovesDocumentAndConversations ==
    [][\A c \in Calls :
          TakesRequest(c) =>
              \A document_id \in DocIdInputs :
                  /\ DeleteDocument(c, document_id) =>
                        IF document_id \in DOMAIN documents
                        THEN DocumentRemoved(c, document_id)
                        ELSE NotFoundNothingChanged(c)
                  /\ GetDocument(c, document_id) /\ document_id \notin DOMAIN documents =>
                        NotFoundNothingChanged(c)]_vars

\* Document d5 was deleted with its two conversations, the conversation on
\* d3 and d4 was kept, and the next fetch was answered with 404.
C25_Witness ==
    \E c \in Calls : \E d \in Calls :
        /\ pc[c] = "answered" /\ closure[c].body = [success |-> TRUE]
        /\ "d5" \notin DOMAIN documents
        /\ DOMAIN conversations = {"8"}
        /\ pc[d] = "rejected" /\ http[d].status_code = 404

\* A document named inside document_ids was deleted with its conversation.
C25_WitnessMulti ==
    \E c \in Calls :
        /\ pc[c] = "answered" /\ closure[c].body = [success |-> TRUE]
        /\ "d3" \notin DOMAIN documents
        /\ "8" \notin DOMAIN conversations

\* The conversations bound to the document.
BoundTo(convs, document_id) == {k \in DOMAIN convs : convs[k].document_id = document_id}

\* The step answers call c with a stored conversation bound to the document
\* and creates one exactly when none was bound to it before.
ConversationReturned(c, document_id) ==
    /\ pc'[c] = "answered"
    /\ http'[c].status_code = 200
    /\ closure'[c].body.id \in BoundTo(conversations', document_id)
    /\ closure'[c].body = conversations'[closure'[c].body.id]
    /\ DOMAIN conversations \subseteq DOMAIN conversations'
    /\ \A k \in DOMAIN conversations : conversations'[k] = conversations[k]
    /\ Cardinality(DOMAIN conversations' \ DOMAIN conversations) =
           (IF BoundTo(conversations, document_id) = {} THEN 1 ELSE 0)
    /\ UNCHANGED documents

C27_TooLargeRejectedWith400 ==
    [][\A c \in Calls :
          TakesRequest(c) =>
              \A file \in UploadFiles :
                  UploadDocument(c, file) /\ file.size > 10 * 1024 * 1024 =>
                      /\ pc'[c] = "rejected"
                      /\ http'[c].status_code = 400
                      /\ Contains(http'[c].detail, "exceeds 10MB limit")
                      /\ UNCHANGED documents]_vars

\* C27 but for the status: a file above 10MB is rejected with an error
\* status and the detail, and no document is stored; a file of exactly 10MB
\* is not rejected for its size.
C27_TooLargeRejected ==
    [][\A c \in Calls :
          TakesRequest(c) =>
              \A file \in UploadFiles :
                  UploadDocument(c, file) /\ file.filename # "" =>
                      IF file.size > 10 * 1024 * 1024
                      THEN /\ pc'[c] = "rejected"
                           /\ http'[c].status_code = 413
                           /\ Contains(http'[c].detail, "exceeds 10MB limit")
                           /\ UNCHANGED documents
                      ELSE ~Contains(http'[c].detail, "exceeds 10MB limit")]_vars


(***************************************************************************)
(* The split of the supplied documents and the numbered demarcation, as    *)
(* the claim describes them.                                               *)
(***************************************************************************)
\* valid and excluded partition docs, each keeping the request order:
\* each supplied document sits in its list at the rank it has among the
\* supplied documents of its kind.
SplitsInOrder(docs, valid, excluded) ==
    LET usable == [i \in 1..Len(docs) |-> Usable(docs[i])]
        rank == [i \in 1..Len(docs) |-> Cardinality({j \in 1..i : usable[j]})]
    IN  /\ Len(valid) + Len(excluded) = Len(docs)
        /\ \A i \in 1..Len(valid) : Usable(valid[i])
        /\ \A i \in 1..Len(excluded) : ~Usable(excluded[i])
        /\ \A i \in 1..Len(valid) : \A j \in 1..Len(excluded) : valid[i] # excluded[j]
        /\ \A i \in 1..Len(docs) :
              IF usable[i]
              THEN rank[i] <= Len(valid) /\ valid[rank[i]] = docs[i]
              ELSE i - rank[i] <= Len(excluded) /\ excluded[i - rank[i]] = docs[i]

\* The demarcated block of the document shown as number n.
DemarcatedBlock(n, doc) ==
    "=== DOCUMENT " \o ToString(n) \o ": \"" \o doc.name \o "\" ===\n"
        \o doc.content \o "\n=== END OF DOCUMENT " \o ToString(n) \o " ==="

\* text is the blocks of docs numbered from..from+Len(docs)-1, in order.
RECURSIVE BlocksFrom(_, _)
BlocksFrom(docs, n) ==
    IF docs = <<>> THEN ""
    ELSE DemarcatedBlock(n, Head(docs))
             \o (IF Len(docs) = 1 THEN "" ELSE "\n\n" \o BlocksFrom(Tail(docs), n + 1))

\* The supplied documents of a multi-document call are split in order and
\* every request it has sent shows the valid ones, numbered 1..k.
SplitAndNumbered(c) ==
    MultiCall(c) =>
        LET docs == closure[c].documents
            valid == valid_content_documents(docs)
            excluded == excluded_docs(docs)
        IN  /\ SplitsInOrder(docs, valid, excluded)
            /\ \A r \in 1..Len(gateway[c]) :
                  LET sent == gateway[c][r].prompt
                  IN  /\ Len(sent.documents) = Len(valid)
                      /\ \A i \in 1..Len(valid) :
                            /\ sent.documents[i].name = valid[i].name
                            /\ sent.documents[i].content = valid[i].content
                            /\ Contains(sent.combined_content, DemarcatedBlock(i, valid[i]))
                      /\ sent.combined_content = BlocksFrom(valid, 1)
                      /\ ~Contains(sent.combined_content, "=== DOCUMENT 0:")
                      /\ ~Contains(sent.combined_content,
                                   "=== DOCUMENT " \o ToString(Len(valid) + 1) \o ":")

(***************************************************************************)
(* C28.  In multi-document chat the supplied documents are split into a    *)
(* valid list (stripped content of at least 10 characters) and an excluded *)
(* list that are disjoint and together contain every supplied document in  *)
(* request order; only valid documents appear in the prompt, each          *)
(* demarcated with its own number, numbered consecutively 1..k in that     *)
(* order.  Checked at every step that sets what a call closes over or      *)
(* sends a request; neither changes afterwards.                            *)
(***************************************************************************)
C28_SplitAndNumbering ==
    [][\A c \in Calls :
          (closure'[c] # closure[c] \/ gateway'[c] # gateway[c]) => SplitAndNumbered(c)']_vars

\* A multi-document request was sent for two supplied documents of which
\* the first was excluded, so the second is shown as number 1.
C28_Witness ==
    \E c \in Calls :
        /\ MultiCall(c) /\ gateway[c] # <<>>
        /\ Len(closure[c].documents) = 2
        /\ ~Usable(closure[c].documents[1])
        /\ Usable(closure[c].documents[2])

\* A multi-document request was sent with two valid documents, numbered 1
\* and 2.
C28_WitnessTwoValid ==
    \E c \in Calls :
        /\ MultiCall(c) /\ gateway[c] # <<>>
        /\ Len(valid_content_documents(closure[c].documents)) = 2
        /\ closure[c].documents[1] # closure[c].documents[2]

(***************************************************************************)
(* C29.  For every chat call that reaches done without an error event      *)
(* (refusal, greeting, single-document completion with or without warning, *)
(* multi-document completion with or without exclusion notice), the        *)
(* content persisted in the assistant message equals the concatenation, in *)
(* emission order, of the content of all token events of that call.        *)
(***************************************************************************)
C29_PersistedIsStreamedText ==
    \A c \in Calls :
        HasPlaceholder(c) /\ DoneEmitted(c) /\ NoError(c) =>
            PlaceholderContent(c) = Join("", TokenContents(c))

\* A multi-document call completed without error after the exclusion
\* notice and two model tokens.
C29_Witness ==
    \E c \in Calls :
        /\ MultiCall(c) /\ HasPlaceholder(c) /\ DoneEmitted(c) /\ NoError(c)
        /\ Len(Excluded(c)) > 0
        /\ Len(TokenContents(c)) = 3
        /\ TokenContents(c)[2] \in GatewayTokens

\* A single-document call completed without error with a model token and
\* the warning.
C29_WitnessWarning ==
    \E c \in Calls :
        /\ ~MultiCall(c) /\ HasPlaceholder(c) /\ DoneEmitted(c) /\ NoError(c)
        /\ Len(TokenContents(c)) = 2
        /\ TokenContents(c)[2] = WarningMessage

\* A call ended with the refusal, and one with the greeting, as its only
\* token.
C29_WitnessRefusal ==
    \E c \in Calls :
        /\ HasPlaceholder(c) /\ DoneEmitted(c) /\ NoError(c)
        /\ gateway[c] = <<>>
        /\ TokenContents(c) = <<RefusalMessage>>

C29_WitnessGreeting ==
    \E c \in Calls :
        /\ HasPlaceholder(c) /\ DoneEmitted(c) /\ NoError(c)
        /\ gateway[c] = <<>>
        /\ TokenContents(c) = <<GreetingResponse>>

(***************************************************************************)
(* C30.  Claimed: when a chat call ends with an error event, no store      *)
(* write is made after the placeholder was appended: the placeholder keeps *)
(* its empty content even if model tokens (or the multi-document exclusion *)
(* notice) were already streamed to the client.  It fails when the error   *)
(* is raised while the Gateway connection is closed, after the update and  *)
(* the done event.                                                         *)
(***************************************************************************)
C30_NoWriteOnError ==
    \A c \in Calls :
        HasPlaceholder(c) /\ ~NoError(c) =>
            /\ writes[c] = <<>>
            /\ PlaceholderContent(c) = ""
            /\ RoleContent(FetchedMessages(c)) = TurnAppended(c, "")

\* What holds in the code: a call whose error event comes before any done
\* event makes no store write after the placeholder, whatever was streamed.
C30_NoWriteOnErrorBeforeDone ==
    \A c \in Calls :
        HasPlaceholder(c) /\ ErrorBeforeDone(c) =>
            /\ writes[c] = <<>>
            /\ PlaceholderContent(c) = ""
            /\ RoleContent(FetchedMessages(c)) = TurnAppended(c, "")

\* A multi-document call streamed the exclusion notice and a model token,
\* then ended with an error event and done.
C30_WitnessStreamed ==
    \E c \in Calls :
        /\ MultiCall(c) /\ HasPlaceholder(c) /\ ErrorBeforeDone(c) /\ Finished(c)
        /\ Len(TokenContents(c)) = 2
        /\ TokenContents(c)[2] \in GatewayTokens

\* The step rejects the request of call c with a 4xx response.
RejectedWith4xx(c) ==
    /\ TakesRequest(c)
    /\ pc'[c] = "rejected"
    /\ http'[c].status_code \in 400..499

\* The step leaves the Document Store as it is.
StoreUnchanged == documents' = documents /\ conversations' = conversations

NoModelDetail == "No model specified. Please select a model from the dropdown."

(***************************************************************************)
(* C31.  Claimed: every chat request that is rejected with a 4xx response  *)
(* before the stream opens (empty question, empty documentIds, unknown     *)
(* document, no resolvable model) leaves the Document Store unchanged: no  *)
(* conversation is created and no message is appended.  It fails for the   *)
(* request without a resolvable model, which is rejected after the         *)
(* conversation was created and both messages were appended.               *)
(***************************************************************************)
C31_RejectionLeavesStore ==
    [][\A c \in Calls : RejectedWith4xx(c) => StoreUnchanged]_vars

\* What holds in the code: the rejections made before the conversation is
\* resolved (empty question, empty documentIds, unknown document) leave the
\* store unchanged.
C31_EarlyRejectionLeavesStore ==
    [][\A c \in Calls :
          RejectedWith4xx(c) /\ http'[c].detail # NoModelDetail => StoreUnchanged]_vars

(***************************************************************************)
(* Summary generation.  An upload with a model schedules the background    *)
(* task; the call slot of the upload then stands for the task.  The task   *)
(* suspends at every await (the sleeps, the Gateway request, each line of  *)
(* the Gateway stream), and the other calls run in between.  The Gateway   *)
(* client's timeout of 120 seconds ends every await on the Gateway.        *)
(***************************************************************************)

\* generate_document_summary_streaming(..., max_retries: int = 3)
max_retries == 3

\* len(content.strip()) >= 50
MinSummaryLen == 50

\* A faulty update that writes the file of a missing document anew; the
\* deletion property C32 must fail against it.
update_document_upsert(docs, doc_id, updates) ==
    IF doc_id \in DOMAIN docs
    THEN [docs EXCEPT ![doc_id] = updates @@ @]
    ELSE (doc_id :> updates) @@ docs

\* FileStorage.update_document: the documents after the update; a missing
\* document stays missing.
update_document(docs, doc_id, updates) ==
    IF doc_id \in DOMAIN docs
    THEN [docs EXCEPT ![doc_id] = updates @@ @]
    ELSE docs

\* document.get(field, default)
DocGet(doc, field, default) == IF field \in DOMAIN doc THEN doc[field] ELSE default

\* min(50 + (token_count * 35 // 100), 85)
stream_progress(token_count) ==
    LET progress == 50 + ((token_count * 35) \div 100)
    IN  IF progress < 85 THEN progress ELSE 85

FailedMessage ==
    "Failed to generate summary. Please check if Ollama is running and the model is available."

\* Faulty updates for an empty summary that leave the status as it is; the
\* termination property C34 must fail against them.
FailedUpdatesNoStatus ==
    [summary_progress |-> 0, summary_message |-> FailedMessage]

\* The updates generate_summary_background writes for an empty summary.
FailedUpdates ==
    [summary_status |-> "failed", summary_progress |-> 0, summary_message |-> FailedMessage]

\* The longest Gateway stream of a summary request, in lines.
MaxSummaryLines == 10

SummaryToken == [kind |-> "object", data |-> [response |-> "Sum."]]

\* The streams the Gateway sends for a summary request: no token, one, or
\* MaxSummaryLines tokens; a whitespace token alone or before a token; a
\* blank and a malformed line before a token; a line that is no object.
SummaryStreams ==
    {[i \in 1..n |-> SummaryToken] : n \in {0, 1, MaxSummaryLines}}
        \cup { <<[kind |-> "object", data |-> [response |-> " "]]>>,
               <<[kind |-> "object", data |-> [response |-> " "]], SummaryToken>>,
               <<[kind |-> "blank"], [kind |-> "malformed"], SummaryToken>>,
               <<SummaryToken, [kind |-> "scalar"]>> }

\* What generate() of the background task closes over.
SummaryTask(document, content, model) ==
    [kind |-> "summary", body |-> document, document_id |-> document.id,
     content |-> content, model |-> model, attempt |-> 0, token_count |-> 0]

\* A faulty test that measures the content with its surrounding blanks; the
\* scheduling property C38 must fail against it.
marks_generating_unstripped(content, model) ==
    /\ model # None /\ model # ""
    /\ content # ""
    /\ Len(content) >= MinSummaryLen

\* upload_document marks the summary as generating: model and content are
\* given and the stripped content has 50 characters or more.
marks_generating(content, model) ==
    /\ model # None /\ model # ""
    /\ content # ""
    /\ Len(Strip(content)) >= MinSummaryLen

\* POST /api/documents/upload?model=...: the whole handler, from the read
\* of the file to the response.
upload_document(c, file, model) ==
    /\ pc[c] = "idle"
    /\ IF file.filename = ""
       THEN Reject(c, 400, "No file provided") /\ UNCHANGED <<documents, nextId>>
       ELSE IF file.size > MaxUploadBytes
       THEN Reject(c, 413, "File size exceeds 10MB limit") /\ UNCHANGED <<documents, nextId>>
       ELSE IF file.content_type # "application/pdf" /\ extension(file.filename) # "pdf"
       THEN /\ Reject(c, 400, "Only PDF files are supported. Please upload a PDF document.")
            /\ UNCHANGED <<documents, nextId>>
       ELSE LET doc_id == ToString(nextId)
                document == create_document(doc_id, file.filename, file.content_type,
                                            file.size, file.text)
                created == (doc_id :> document) @@ documents
                updated == update_document(created, doc_id,
                                           [summary_status |-> "generating"])
            IN  /\ nextId' = nextId + 1
                /\ IF marks_generating(file.text, model)
                   THEN /\ documents' = updated
                        /\ pc' = [pc EXCEPT ![c] = "task_scheduled"]
                        /\ http' = [http EXCEPT ![c] = [status_code |-> 200, detail |-> ""]]
                        /\ closure' = [closure EXCEPT ![c] =
                               SummaryTask(updated[doc_id], file.text, model)]
                   ELSE /\ documents' = created
                        /\ Respond(c, document)
    /\ UNCHANGED <<conversations, OLLAMA_MODEL, full_response, linesRead, events,
                   gateway, gatewayAnswer, writes, before>>

\* The variables a step of the background task leaves alone.
taskFrame == <<conversations, nextId, OLLAMA_MODEL, http, events, writes, before>>

\* generate_summary_background, step 1: "Preparing document...", then the
\* sleep.
BackgroundPrepare(c) ==
    /\ pc[c] = "task_scheduled"
    /\ documents' = update_document(documents, closure[c].document_id,
           [summary_progress |-> 10, summary_message |-> "Preparing document..."])
    /\ pc' = [pc EXCEPT ![c] = "task_analyze"]
    /\ UNCHANGED <<taskFrame, closure, full_response, linesRead, gateway, gatewayAnswer>>

\* Step 2: "Analyzing document content...", then the sleep.
BackgroundAnalyze(c) ==
    /\ pc[c] = "task_analyze"
    /\ documents' = update_document(documents, closure[c].document_id,
           [summary_progress |-> 30, summary_message |-> "Analyzing document content..."])
    /\ pc' = [pc EXCEPT ![c] = "task_generate"]
    /\ UNCHANGED <<taskFrame, closure, full_response, linesRead, gateway, gatewayAnswer>>

\* client.stream("POST", .../api/generate, json={model, prompt, stream})
\* of generate_document_summary_streaming.
SendSummaryRequest(c) ==
    /\ gateway' = [gateway EXCEPT ![c] =
           Append(@, [model |-> closure[c].model,
                      prompt |-> [content |-> truncated_content(closure[c].content)],
                      stream |-> TRUE])]
    /\ gatewayAnswer' = [gatewayAnswer EXCEPT ![c] = NoAnswer]
    /\ pc' = [pc EXCEPT ![c] = "summary_await"]

\* Step 3: "Generating summary with <model>...", then the first attempt's
\* request.
BackgroundGenerate(c) ==
    /\ pc[c] = "task_generate"
    /\ documents' = update_document(documents, closure[c].document_id,
           [summary_progress |-> 50,
            summary_message |-> "Generating summary with " \o closure[c].model \o "..."])
    /\ SendSummaryRequest(c)
    /\ UNCHANGED <<taskFrame, closure, full_response, linesRead>>

\* generate_document_summary_streaming returns summary to
\* generate_summary_background, which runs on to its next await or its end.
SummaryReturns(c, summary) ==
    IF summary # ""
    THEN /\ documents' = update_document(documents, closure[c].document_id,
                [summary_progress |-> 90, summary_message |-> "Finalizing summary..."])
         /\ full_response' = [full_response EXCEPT ![c] = summary]
         /\ pc' = [pc EXCEPT ![c] = "task_finalize"]
    ELSE /\ documents' = update_document(documents, closure[c].document_id, FailedUpdates)
         /\ full_response' = [full_response EXCEPT ![c] = ""]
         /\ pc' = [pc EXCEPT ![c] = "task_finished"]

\* A faulty retry test that never gives up; the bound on the Gateway
\* requests (C33) must fail against it.
AttemptFailedRetryAlways(c) ==
    /\ pc' = [pc EXCEPT ![c] = "summary_backoff"]
    /\ UNCHANGED <<documents, full_response>>

\* An attempt failed (status other than 200 and 404, connection error,
\* timeout, any other exception): sleep and retry if attempts are left,
\* else return "".
AttemptFailed(c) ==
    IF closure[c].attempt < max_retries - 1
    THEN /\ pc' = [pc EXCEPT ![c] = "summary_backoff"]
         /\ UNCHANGED <<documents, full_response>>
    ELSE SummaryReturns(c, "")

\* The Gateway answers the summary request with a status code and, for 200,
\* the stream it will send.
SummaryRespond(c, status_code, stream) ==
    /\ pc[c] = "summary_await"
    /\ gatewayAnswer' = [gatewayAnswer EXCEPT ![c] =
           [status_code |-> status_code, stream |-> stream]]
    /\ IF status_code = 404
       THEN SummaryReturns(c, "") /\ UNCHANGED <<closure, linesRead>>
       ELSE IF status_code # 200
       THEN AttemptFailed(c) /\ UNCHANGED <<closure, linesRead>>
       ELSE /\ full_response' = [full_response EXCEPT ![c] = ""]
            /\ linesRead' = [linesRead EXCEPT ![c] = 0]
            /\ closure' = [closure EXCEPT ![c].token_count = 0]
            /\ pc' = [pc EXCEPT ![c] = "summary_streaming"]
            /\ UNCHANGED documents
    /\ UNCHANGED <<taskFrame, gateway>>

\* httpx.ConnectError, httpx.ReadTimeout or another exception while the
\* request is made or the stream is read.
SummaryAttemptRaises(c) ==
    /\ pc[c] \in {"summary_await", "summary_streaming"}
    /\ AttemptFailed(c)
    /\ UNCHANGED <<taskFrame, closure, linesRead, gateway, gatewayAnswer>>

\* After the sleep: the next attempt's request.
SummaryRetry(c) ==
    /\ pc[c] = "summary_backoff"
    /\ closure' = [closure EXCEPT ![c].attempt = @ + 1]
    /\ SendSummaryRequest(c)
    /\ UNCHANGED <<taskFrame, documents, full_response, linesRead>>

\* One line of the Gateway stream: a token is added to the summary, and
\* every fifth token updates the progress.
SummaryLine(c) ==
    /\ pc[c] = "summary_streaming"
    /\ linesRead[c] < Len(gatewayAnswer[c].stream)
    /\ LET line == gatewayAnswer[c].stream[linesRead[c] + 1]
           token_count == closure[c].token_count + 1
       IN  /\ linesRead' = [linesRead EXCEPT ![c] = @ + 1]
           /\ IF line.kind = "scalar"
              THEN AttemptFailed(c) /\ UNCHANGED closure
              ELSE IF line_token(line) = <<>>
              THEN UNCHANGED <<documents, full_response, closure, pc>>
              ELSE /\ full_response' = [full_response EXCEPT ![c] = @ \o line_token(line)[1]]
                   /\ closure' = [closure EXCEPT ![c].token_count = token_count]
                   /\ documents' =
                          IF token_count % 5 = 0
                          THEN update_document(documents, closure[c].document_id,
                                   [summary_progress |-> stream_progress(token_count),
                                    summary_message |->
                                        "Generating summary... (" \o ToString(token_count)
                                            \o " tokens)"])
                          ELSE documents
                   /\ UNCHANGED pc
    /\ UNCHANGED <<taskFrame, gateway, gatewayAnswer>>

\* The Gateway stream ends: return summary.strip().
SummaryEnd(c) ==
    /\ pc[c] = "summary_streaming"
    /\ linesRead[c] = Len(gatewayAnswer[c].stream)
    /\ SummaryReturns(c, Strip(full_response[c]))
    /\ UNCHANGED <<taskFrame, closure, linesRead, gateway, gatewayAnswer>>

\* A faulty last step that leaves the progress at 90; the status
\* invariant C35 must fail against it.
BackgroundCompleteNoProgress(c) ==
    /\ pc[c] = "task_finalize"
    /\ documents' = update_document(documents, closure[c].document_id,
           [summary |-> full_response[c], summary_status |-> "completed",
            summary_message |-> "Summary complete"])
    /\ pc' = [pc EXCEPT ![c] = "task_finished"]
    /\ UNCHANGED <<taskFrame, closure, full_response, linesRead, gateway, gatewayAnswer>>

\* Step 5, after the sleep: "Summary complete".
BackgroundComplete(c) ==
    /\ pc[c] = "task_finalize"
    /\ documents' = update_document(documents, closure[c].document_id,
           [summary |-> full_response[c], summary_status |-> "completed",
            summary_progress |-> 100, summary_message |-> "Summary complete"])
    /\ pc' = [pc EXCEPT ![c] = "task_finished"]
    /\ UNCHANGED <<taskFrame, closure, full_response, linesRead, gateway, gatewayAnswer>>

\* The steps of the background task in call slot c, with the streams the
\* Gateway may send.
BackgroundStep(c, streams) ==
    \/ BackgroundPrepare(c)
    \/ BackgroundAnalyze(c)
    \/ BackgroundGenerate(c)
    \/ \E status_code \in {200, 404, 500} : \E stream \in streams :
           SummaryRespond(c, status_code, IF status_code = 200 THEN stream ELSE <<>>)
    \/ SummaryAttemptRaises(c)
    \/ SummaryRetry(c)
    \/ SummaryLine(c)
    \/ SummaryEnd(c)
    \/ BackgroundComplete(c)

(***************************************************************************)
(* The summary-status stream.  The loop of generate() runs from one sleep  *)
(* to the next; time is counted in sleeps: after MaxPolls of them          *)
(* max_duration has passed.  A keep-alive may be due after any sleep.      *)
(***************************************************************************)

\* The sleeps that fit into max_duration.
MaxPolls == 2

ProgressEvent(document) ==
    LET message == DocGet(document, "summary_message", None)
        status == DocGet(document, "summary_status", None)
    IN  [type |-> "progress",
         status |-> IF status \in {None, ""} THEN "none" ELSE status,
         progress |-> DocGet(document, "summary_progress", 0),
         message |-> IF message = None THEN "" ELSE message,
         summary |-> DocGet(document, "summary", "")]

TimeoutEvent(last_progress) ==
    [type |-> "timeout", message |-> "Maximum duration exceeded",
     last_progress |-> last_progress]

StatusErrorEvent(message) == [type |-> "error", message |-> message]

\* The comment line ": keep-alive".
KeepAlive == [type |-> "keep-alive"]

\* GET /api/documents/{document_id}/summary-status
StreamSummaryStatus(c, document_id) ==
    /\ pc[c] = "idle"
    /\ http' = [http EXCEPT ![c] = [status_code |-> 200, detail |-> ""]]
    /\ closure' = [closure EXCEPT ![c] =
           [kind |-> "status", document_id |-> document_id,
            last_progress |-> -1, last_status |-> None, polls |-> 0]]
    /\ pc' = [pc EXCEPT ![c] = "status_poll"]
    /\ UNCHANGED <<storeVars, OLLAMA_MODEL, full_response, linesRead, events,
                   gateway, gatewayAnswer, writes, before>>

\* A faulty loop that yields done for every status; the terminal-event
\* property C37 must fail against it.
is_terminal_always(status) == TRUE

\* current_status in ["completed", "failed", "none"]
is_terminal(status) == status \in {"completed", "failed", "none"}

\* One pass of the while loop, up to its sleep or its break.
StatusPoll(c, elapsed_exceeded, keepalive_due) ==
    /\ pc[c] = "status_poll"
    /\ elapsed_exceeded <=> closure[c].polls >= MaxPolls
    /\ keepalive_due => closure[c].polls >= 1
    /\ LET cl == closure[c]
           document == get_document(cl.document_id)
           current == ProgressEvent(document)
           changed == current.status # cl.last_status \/ current.progress # cl.last_progress
       IN  IF elapsed_exceeded
           THEN /\ Emit(c, <<TimeoutEvent(cl.last_progress)>>)
                /\ pc' = [pc EXCEPT ![c] = "status_closed"]
                /\ UNCHANGED closure
           ELSE IF document = Absent
           THEN /\ Emit(c, <<StatusErrorEvent("Document not found")>>)
                /\ pc' = [pc EXCEPT ![c] = "status_closed"]
                /\ UNCHANGED closure
           ELSE /\ Emit(c, (IF changed THEN <<current>>
                            ELSE IF keepalive_due THEN <<KeepAlive>> ELSE <<>>)
                               \o (IF is_terminal(current.status) THEN <<DoneEvent>> ELSE <<>>))
                /\ closure' = [closure EXCEPT ![c] =
                       [@ EXCEPT !.last_status = IF changed THEN current.status ELSE @,
                                 !.last_progress = IF changed THEN current.progress ELSE @,
                                 !.polls = IF is_terminal(current.status) THEN @ ELSE @ + 1]]
                /\ pc' = [pc EXCEPT ![c] =
                       IF is_terminal(current.status) THEN "status_closed" ELSE "status_poll"]
    /\ UNCHANGED <<storeVars, OLLAMA_MODEL, http, full_response, linesRead,
                   gateway, gatewayAnswer, writes, before>>

(***************************************************************************)
(* Uploads with a model, their background task, the status stream and      *)
(* deletions, interleaved with one another and with a chat call.  The      *)
(* first call slot uploads or chats; the second follows the summary        *)
(* status; the last deletes a document.                                    *)
(***************************************************************************)

SecondCall == CHOOSE c \in Calls \ {FirstCall} : \A d \in Calls \ {FirstCall} : c <= d

FiftyChars == Repeat("abcdefghij", 5)

\* The files uploaded with a model: content of 50 characters; of 49
\* characters between two blanks; empty; and a file that is no PDF.
SummaryFiles ==
    { [filename |-> "report.pdf", content_type |-> "application/pdf", size |-> 50,
       text |-> FiftyChars],
      [filename |-> "padded.pdf", content_type |-> "application/pdf", size |-> 51,
       text |-> " " \o SubSeq(FiftyChars, 1, 49) \o " "],
      [filename |-> "empty.pdf", content_type |-> "application/pdf", size |-> 0,
       text |-> ""],
      [filename |-> "test.txt", content_type |-> "text/plain", size |-> 50,
       text |-> FiftyChars] }

UploadModels == {None, "", "llama3"}

\* The chat requests made while documents are deleted.
SummaryChatRequests ==
    [documentId : {"d4"}, conversationId : {None}, question : {"hi!!"}, model : {"llama3"}]

\* The ids deleted and followed: the stored document, the uploaded one,
\* and (followed only) one no document has.
SummaryDocIds == {"d4", "1"}

\* The lines the Gateway streams to the chat call: an answer too short for
\* the warning.
SummaryChatLines == {[kind |-> "object", data |-> [response |-> "Yes."]]}

\* The steps of the generator of the chat call.
SummaryChatStep(c) ==
    \/ GenStart(c)
    \/ Validate(c)
    \/ \E status_code \in {200, 500} : GatewayRespond(c, status_code)
    \/ pc[c] = "streaming" /\ \E line \in SummaryChatLines : StreamLine(c, line)
    \/ StreamEnd(c)
    \/ CloseOk(c)
    \/ YieldDone(c)

SummaryInit ==
    /\ documents = [d \in {"d4"} |-> DocCatalogue[d]]
    /\ conversations = NoConversations /\ nextId = 1
    /\ OLLAMA_MODEL = None
    /\ InitCalls

\* The slot that deletes documents: the last one.
DeleterCall == CHOOSE c \in Calls : \A d \in Calls : d <= c

\* An upload with a model and the steps of its background task.
UploadAndTask(streams) ==
    \/ \E file \in SummaryFiles : \E model \in UploadModels :
           upload_document(FirstCall, file, model)
    \/ BackgroundStep(FirstCall, streams)

\* A chat call and the steps of its generator.
ChatCall ==
    \/ \E request \in SummaryChatRequests : Chat(FirstCall, request)
    \/ SummaryChatStep(FirstCall)

Deletion == \E document_id \in SummaryDocIds : DeleteDocument(DeleterCall, document_id)

\* The status stream of one document and the passes of its loop.
StatusStream ==
    \/ \E document_id \in SummaryDocIds \cup {MissingDocId} :
           StreamSummaryStatus(SecondCall, document_id)
    \/ \E elapsed_exceeded \in BOOLEAN : \E keepalive_due \in BOOLEAN :
           StatusPoll(SecondCall, elapsed_exceeded, keepalive_due)

\* The task and the chat call among deletions.  Every await of the task
\* and of the chat generator ends: the Gateway client times out, a sleep
\* returns, and the server keeps iterating a generator whose client is
\* connected.
TaskNext == UploadAndTask(SummaryStreams) \/ ChatCall \/ Deletion

FairTaskSpec ==
    /\ SummaryInit /\ [][TaskNext]_vars
    /\ WF_vars(BackgroundStep(FirstCall, SummaryStreams))
    /\ WF_vars(SummaryChatStep(FirstCall))

\* The streams the Gateway sends while the status is followed: no token,
\* and the five tokens after which the task writes its progress.
StatusSummaryStreams == { <<>>, [i \in 1..5 |-> SummaryToken] }

\* The status stream beside the task and deletions; the sleep of its loop
\* returns too.
StatusNext == UploadAndTask(StatusSummaryStreams) \/ Deletion \/ StatusStream

FairStatusSpec ==
    /\ SummaryInit /\ [][StatusNext]_vars
    /\ WF_vars(BackgroundStep(FirstCall, StatusSummaryStreams))
    /\ WF_vars(\E elapsed_exceeded \in BOOLEAN : \E keepalive_due \in BOOLEAN :
                   StatusPoll(SecondCall, elapsed_exceeded, keepalive_due))

(***************************************************************************)
(* Claims about summary generation, the status stream and deletions,       *)
(* checked under FairTaskSpec and FairStatusSpec.                          *)
(***************************************************************************)

\* Where the background task stands while it runs.
TaskPcs ==
    {"task_scheduled", "task_analyze", "task_generate", "summary_await",
     "summary_streaming", "summary_backoff", "task_finalize"}

\* Where the generator of a chat call stands while it runs.
ChatPcs ==
    {"open", "validate", "request", "await_response", "streaming", "persist",
     "closing", "yield_done"}

\* The step is taken by work in flight: no call takes a request in it.
InFlightStep == \A c \in Calls : ~TakesRequest(c)

\* The step adds no document and no conversation to the store.
NothingCreated ==
    /\ DOMAIN documents' \subseteq DOMAIN documents
    /\ DOMAIN conversations' \subseteq DOMAIN conversations

\* The work in flight whose document or conversation is gone leaves the
\* store as it is.
LateUpdateWritesNothing ==
    \A c \in Calls :
        /\ pc[c] \in TaskPcs /\ closure[c].document_id \notin DOMAIN documents
               => documents' = documents
        /\ pc[c] \in ChatPcs /\ closure[c].conversation_id \notin DOMAIN conversations
               => conversations' = conversations /\ writes'[c] = writes[c]

\* The last event of the call is done.
EndsWithDone(c) ==
    events[c] # <<>> /\ events[c][Len(events[c])].type = "done"

(***************************************************************************)
(* C32.  A document or conversation deleted while a chat call streams or   *)
(* a background summary task runs is never re-created by that work: no     *)
(* step of work in flight adds a document or a conversation, a late        *)
(* update_last_message or update_document whose target is gone writes      *)
(* nothing, and the chat stream, once opened, ends with done as its last   *)
(* event.                                                                  *)
(***************************************************************************)
C32_DeletedStaysDeleted ==
    /\ [][InFlightStep => NothingCreated /\ LateUpdateWritesNothing]_vars
    /\ [](\A c \in Calls : Finished(c) => EndsWithDone(c))
    /\ \A c \in Calls : (pc[c] = "open") ~> Finished(c)

\* C32's case for the chat call: the conversation had its placeholder, the
\* Gateway stream ran to its end without an error, the update found
\* nothing to write because the conversation was deleted meanwhile, and
\* the stream ended with done.
C32_Witness ==
    \E c \in Calls :
        /\ Finished(c) /\ HasPlaceholder(c) /\ NoError(c)
        /\ gatewayAnswer[c] # NoAnswer /\ gatewayAnswer[c].status_code = 200
        /\ closure[c].conversation_id \notin DOMAIN conversations
        /\ writes[c] = <<>>
        /\ EndsWithDone(c)

\* C32's case for the task: its document is gone while it is about to
\* write the completed summary.
C32_WitnessTask ==
    \E c \in Calls :
        /\ pc[c] = "task_finalize"
        /\ closure[c].document_id \notin DOMAIN documents


\* Where generate_document_summary_streaming stands between its first
\* request and its return.
SummaryPcs == {"summary_await", "summary_streaming", "summary_backoff"}

\* Where the task stands once generate_document_summary_streaming has
\* returned.
ReturnedPcs == {"task_finalize", "task_finished"}

\* The tokens of a Gateway stream, joined.
StreamText(stream) ==
    LET tokens == SelectSeq(stream, LAMBDA line : line_token(line) # <<>>)
    IN  Join("", [i \in 1..Len(tokens) |-> line_token(tokens[i])[1]])

\* Call c gets status 404 for its summary request in this step.
Gets404(c) ==
    /\ pc[c] = "summary_await"
    /\ gatewayAnswer'[c] # gatewayAnswer[c]
    /\ gatewayAnswer'[c].status_code = 404

\* The Gateway stream of call c is at its end.
AtStreamEnd(c) ==
    pc[c] = "summary_streaming" /\ linesRead[c] = Len(gatewayAnswer[c].stream)

\* generate_document_summary_streaming returns in this step, and what it
\* returns is empty.
ReturnsEmpty(c) ==
    pc[c] \in SummaryPcs /\ pc'[c] = "task_finished" /\ full_response'[c] = ""

C33_WitnessExhausted ==
    \E c \in Calls :
        /\ pc[c] = "task_finished" /\ closure[c].kind = "summary"
        /\ Len(gateway[c]) = max_retries
        /\ gatewayAnswer[c] # NoAnswer /\ gatewayAnswer[c].status_code = 500
        /\ full_response[c] = ""

\* C33's case of status 404 on the first request.
C33_WitnessNotFound ==
    \E c \in Calls :
        /\ pc[c] = "task_finished" /\ closure[c].kind = "summary"
        /\ Len(gateway[c]) = 1
        /\ gatewayAnswer[c] # NoAnswer /\ gatewayAnswer[c].status_code = 404


\* The summary_status of the stored document d; None without the document.
StatusOf(d) ==
    IF d \in DOMAIN documents THEN DocGet(documents[d], "summary_status", None) ELSE None

Generating(d) == StatusOf(d) = "generating"

Settled(d) == StatusOf(d) \in {"completed", "failed"}

(***************************************************************************)
(* C34.  Once upload has set a document's summary_status to "generating",  *)
(* the background task eventually sets it to "completed" or "failed",      *)
(* unless the document is deleted first; and a status "completed" or      *)
(* "failed" never changes again while the document exists.                 *)
(***************************************************************************)
C34_StatusSettles ==
    /\ \A d \in SummaryDocIds :
           Generating(d) ~> (d \notin DOMAIN documents \/ Settled(d))
    /\ [][\A d \in SummaryDocIds :
              Settled(d) /\ d \in DOMAIN documents' => StatusOf(d)' = StatusOf(d)]_vars

\* C34's case of success: the task has finished and the document it was
\* started for is completed.
C34_Witness ==
    \E c \in Calls :
        /\ pc[c] = "task_finished" /\ closure[c].kind = "summary"
        /\ StatusOf(closure[c].document_id) = "completed"

\* C34's case of the empty summary.
C34_WitnessFailed ==
    \E c \in Calls :
        /\ pc[c] = "task_finished" /\ closure[c].kind = "summary"
        /\ StatusOf(closure[c].document_id) = "failed"


(***************************************************************************)
(* C35.  In every reachable store state a document whose summary_status    *)
(* is "completed" has summary_progress 100 and a non-empty summary, and a  *)
(* document whose summary_status is "failed" has summary_progress 0.       *)
(***************************************************************************)
C35_StatusProgress ==
    \A d \in DOMAIN documents :
        /\ StatusOf(d) = "completed"
               => /\ DocGet(documents[d], "summary_progress", 0) = 100
                  /\ DocGet(documents[d], "summary", None) \notin {None, ""}
        /\ StatusOf(d) = "failed"
               => DocGet(documents[d], "summary_progress", 0) = 0

\* C35's case: a completed document at 100 with its summary.
C35_Witness ==
    \E d \in DOMAIN documents :
        /\ StatusOf(d) = "completed"
        /\ documents[d].summary_progress = 100
        /\ documents[d].summary = "Sum."

\* C35's case of failure after progress was made: the task streamed tokens
\* on three attempts and the document is failed at 0.
C35_WitnessFailed ==
    \E c \in Calls :
        /\ pc[c] = "task_finished" /\ closure[c].kind = "summary"
        /\ Len(gateway[c]) = max_retries /\ linesRead[c] > 0
        /\ StatusOf(closure[c].document_id) = "failed"
        /\ documents[closure[c].document_id].summary_progress = 0


\* The summary_progress of the stored document d.
ProgressOf(d) == DocGet(documents[d], "summary_progress", 0)

\* The step leaves document d generating and does not lower its progress.
ProgressKept(d) ==
    Generating(d) /\ Generating(d)' => ProgressOf(d)' >= ProgressOf(d)

(***************************************************************************)
(* C36.  Claimed: while a document's summary_status is "generating", its   *)
(* summary_progress never decreases from one store update to the next,     *)
(* also across retry attempts of the Gateway request.                      *)
(* The code breaks it: token_count starts at 0 in every attempt, so an     *)
(* attempt that fails after ten tokens (progress 53) is followed by a      *)
(* retry whose fifth token writes progress 51.                             *)
(***************************************************************************)
C36_ProgressNeverDecreases == [][\A d \in SummaryDocIds : ProgressKept(d)]_vars

\* C36 without the retries: as long as no attempt of the task has failed,
\* the progress of its document never decreases.
C36_ProgressKeptInFirstAttempt ==
    [][\A c \in Calls :
          pc[c] \in TaskPcs /\ closure[c].attempt = 0
              => ProgressKept(closure[c].document_id)]_vars

\* The state C36 fails after: the second attempt has read four tokens
\* while the document stands at the progress of the first attempt's ten.
C36_BeforeDecrease ==
    \E c \in Calls :
        /\ pc[c] = "summary_streaming" /\ closure[c].attempt = 1
        /\ closure[c].token_count = 4
        /\ Generating(closure[c].document_id)
        /\ ProgressOf(closure[c].document_id) = stream_progress(10)


\* Call c stores the new document d in this step: an upload.
Uploads(c, d) ==
    /\ TakesRequest(c)
    /\ d \notin DOMAIN documents /\ d \in DOMAIN documents'

\* The upload of call c has scheduled the background task, which has not
\* taken a step yet.
TaskScheduled(c) == pc[c] = "task_scheduled"

(***************************************************************************)
(* C38.  Upload schedules the background summary task only when a model    *)
(* is given and the stripped content has at least 50 characters; the       *)
(* store then holds summary_status "generating" in the state in which the  *)
(* task is scheduled, before any step of the task, and the response        *)
(* carries it.  In every other case no task is started and summary_status  *)
(* stays unset, in the store and in the response.                          *)
(***************************************************************************)
C38_SchedulesWhenMarked ==
    [][\A c \in Calls : \A d \in DOMAIN documents' :
          Uploads(c, d) =>
              /\ http'[c].status_code = 200
              /\ closure'[c].body.id = d
              /\ IF TaskScheduled(c)'
                 THEN /\ closure'[c].model \notin {None, ""}
                      /\ Len(Strip(documents'[d].content)) >= MinSummaryLen
                      /\ closure'[c].document_id = d
                      /\ documents'[d].summary_status = "generating"
                      /\ closure'[c].body.summary_status = "generating"
                      /\ documents'[d].summary_progress = 0
                 ELSE /\ pc'[c] = "answered"
                      /\ documents'[d].summary_status = None
                      /\ closure'[c].body.summary_status = None]_vars

\* C38's case: the task is scheduled and has taken no step; the stored
\* document and the response are marked generating.
C38_Witness ==
    \E c \in Calls :
        /\ TaskScheduled(c)
        /\ closure[c].document_id \in DOMAIN documents
        /\ StatusOf(closure[c].document_id) = "generating"
        /\ closure[c].body.summary_status = "generating"

\* C38's other case: the content of 49 characters between two blanks is
\* stored with no task and the status unset.
C38_WitnessShort ==
    \E c \in Calls : \E d \in DOMAIN documents :
        /\ pc[c] = "answered" /\ closure[c].body = documents[d]
        /\ documents[d].name = "padded.pdf"
        /\ documents[d].summary_status = None


\* Where a status stream stands.
StatusPcs == {"status_poll", "status_closed"}

TerminalTypes == {"done", "timeout", "error"}

\* The progress events of the stream, in emission order.
ProgressEvents(c) == SelectSeq(events[c], LAMBDA e : e.type = "progress")

\* The stream has exactly one terminal event, and it is the last event.
OneTerminalLast(c) ==
    /\ events[c] # <<>>
    /\ \A i \in 1..Len(events[c]) :
           events[c][i].type \in TerminalTypes <=> i = Len(events[c])

\* Every done event directly follows a progress event whose status is
\* completed, failed or none.
DoneFollowsTerminalProgress(c) ==
    \A i \in 1..Len(events[c]) :
        events[c][i].type = "done"
            => /\ i > 1
               /\ events[c][i - 1].type = "progress"
               /\ events[c][i - 1].status \in {"completed", "failed", "none"}

\* Every progress event differs in status or progress from the one sent
\* before it.
ProgressOnlyOnChange(c) ==
    LET sent == ProgressEvents(c)
    IN  \A i \in 2..Len(sent) :
            sent[i].status # sent[i - 1].status \/ sent[i].progress # sent[i - 1].progress

(***************************************************************************)
(* C37.  The summary-status stream (of the second slot, which alone        *)
(* follows a status) ends on every path, with exactly one                  *)
(* terminal event (done, timeout or error) as its last event; done is      *)
(* sent only for the status completed, failed or none and directly after   *)
(* a progress event with that status; a progress event is sent only when   *)
(* status or progress differs from the last one sent.                      *)
(***************************************************************************)
C37_StatusStreamEnds ==
    /\ [](\A c \in Calls :
            /\ pc[c] = "status_poll"
                   => \A i \in 1..Len(events[c]) : events[c][i].type \notin TerminalTypes
            /\ pc[c] = "status_closed" => OneTerminalLast(c)
            /\ pc[c] \in StatusPcs
                   => DoneFollowsTerminalProgress(c) /\ ProgressOnlyOnChange(c))
    /\ (pc[SecondCall] = "status_poll") ~> (pc[SecondCall] = "status_closed")

\* C37's case of done: the stream sent the progress of a generating
\* summary, later the progress of the completed one, and done.
C37_Witness ==
    \E c \in Calls :
        /\ pc[c] = "status_closed"
        /\ Len(ProgressEvents(c)) >= 2
        /\ ProgressEvents(c)[1].status = "generating"
        /\ events[c][Len(events[c]) - 1].type = "progress"
        /\ events[c][Len(events[c]) - 1].status = "completed"
        /\ events[c][Len(events[c])].type = "done"

\* C37's case of the timeout after a keep-alive.
C37_WitnessTimeout ==
    \E c \in Calls :
        /\ pc[c] = "status_closed"
        /\ events[c][Len(events[c])].type = "timeout"
        /\ \E i \in 1..Len(events[c]) : events[c][i] = KeepAlive

\* C37's case of the error: the document is not found.
C37_WitnessError ==
    \E c \in Calls :
        /\ pc[c] = "status_closed"
        /\ events[c][Len(events[c])] = StatusErrorEvent("Document not found")

=============================================================================
